---- MODULE Spec2Model ----
(***************************************************************************)
(* Job_Agent: the application-automation router of src/src/automator.py.   *)
(*                                                                         *)
(* start_application and the four portal handlers are modelled as one      *)
(* sequential program.  pc is the position in the code, log records every  *)
(* call made on the WebDriver session (with its outcome), every message    *)
(* printed and every handler entry and exit, in program order.  The        *)
(* browser and the page are the environment: each bounded wait ends with   *)
(* the element found or with a TimeoutException, each find_element with    *)
(* the element or a NoSuchElementException, and any WebDriver call may     *)
(* raise another exception (WebDriverException and its other subclasses).  *)
(*                                                                         *)
(* The applications table of src/src/database.py is a sequence of rows in  *)
(* rowid order; each function of the module is one action that runs its    *)
(* SQL statement on the rows and records the call and its result in ret.   *)
(***************************************************************************)
EXTENDS Integers, Sequences, FiniteSets, TLC

VARIABLES
    pc,                \* position in start_application / the handlers
    driver,            \* the driver argument: "session" or "none" (None)
    job_url,           \* the job_url argument, a sequence of characters
    resume_data,       \* the resume_data argument: NoResumeData or a record
    application_text,  \* the application_text argument, "" when empty
    log,               \* driver calls, prints and handler events, in order
    exc,               \* the exception being propagated, "none" if none
    idx,               \* loop index of the handlers' field_map loops
    in_frame,          \* the session's document context is inside the iframe
    session_open,      \* the browser session has not been quit
    applications,      \* the rows of the applications table, in rowid order
    table_exists,      \* the applications table has been created
    ret,               \* the last call of a database function and its result
    st_driver,         \* st.session_state.driver: 0 (None) or a session
    sessions,          \* the browser sessions the app has started
    st_resume_path,    \* st.session_state.resume_path
    app_text,          \* the job ids whose app_text_<id> is not empty
    current_page,      \* st.session_state.current_page
    act,               \* the last user action the app has handled
    scraped_jobs,      \* st.session_state.scraped_jobs
    my_skills,         \* st.session_state.my_skills
    ranked_jobs        \* what find_relevant_jobs returned last

vars == <<pc, driver, job_url, resume_data, application_text, log, exc, idx,
          in_frame, session_open, applications, table_exists, ret,
          st_driver, sessions, st_resume_path, app_text, current_page, act,
          scraped_jobs, my_skills, ranked_jobs>>

database == <<applications, table_exists, ret>>

ranking == <<scraped_jobs, my_skills, ranked_jobs>>

app == <<st_driver, sessions, st_resume_path, app_text, current_page, act,
         ranking>>

-----------------------------------------------------------------------------
(* Strings as the code reads them: character sequences, lower(), `in`.     *)

UpperToLower ==
    "A" :> "a" @@ "B" :> "b" @@ "C" :> "c" @@ "D" :> "d" @@ "E" :> "e" @@
    "F" :> "f" @@ "G" :> "g" @@ "H" :> "h" @@ "I" :> "i" @@ "J" :> "j" @@
    "K" :> "k" @@ "L" :> "l" @@ "M" :> "m" @@ "N" :> "n" @@ "O" :> "o" @@
    "P" :> "p" @@ "Q" :> "q" @@ "R" :> "r" @@ "S" :> "s" @@ "T" :> "t" @@
    "U" :> "u" @@ "V" :> "v" @@ "W" :> "w" @@ "X" :> "x" @@ "Y" :> "y" @@
    "Z" :> "z"

\* str.lower()
Lower(s) ==
    [i \in 1..Len(s) |->
        IF s[i] \in DOMAIN UpperToLower THEN UpperToLower[s[i]] ELSE s[i]]

\* Python's `sub in s` on strings
Contains(sub, s) ==
    \E i \in 0..(Len(s) - Len(sub)) : SubSeq(s, i + 1, i + Len(sub)) = sub

\* The literals of the platform detection logic.
PatWorkday == <<"w", "o", "r", "k", "d", "a", "y">>
PatGreenhouseIo == <<"g", "r", "e", "e", "n", "h", "o", "u", "s", "e", ".", "i", "o">>
PatBoardsGreenhouseIo ==
    <<"b", "o", "a", "r", "d", "s", ".">> \o PatGreenhouseIo
PatLeverCo == <<"l", "e", "v", "e", "r", ".", "c", "o">>

\* PortalOf without the .lower() calls: the patterns matched case-sensitively.
PortalOfCaseSensitive(url) ==
    IF Contains(PatWorkday, url) THEN "workday"
    ELSE IF Contains(PatGreenhouseIo, url)
            \/ Contains(PatBoardsGreenhouseIo, url) THEN "greenhouse"
    ELSE IF Contains(PatLeverCo, url) THEN "lever"
    ELSE "generic"

\* PortalOf with the Lever branch moved to the front of the chain.
PortalOfLeverFirst(url) ==
    IF Contains(PatLeverCo, Lower(url)) THEN "lever"
    ELSE IF Contains(PatWorkday, Lower(url)) THEN "workday"
    ELSE IF Contains(PatGreenhouseIo, Lower(url))
            \/ Contains(PatBoardsGreenhouseIo, Lower(url)) THEN "greenhouse"
    ELSE "generic"

\* The if/elif chain of start_application: which handler a URL is given to.
PortalOf(url) ==
    IF Contains(PatWorkday, Lower(url)) THEN "workday"
    ELSE IF Contains(PatGreenhouseIo, Lower(url))
            \/ Contains(PatBoardsGreenhouseIo, Lower(url)) THEN "greenhouse"
    ELSE IF Contains(PatLeverCo, Lower(url)) THEN "lever"
    ELSE "generic"

-----------------------------------------------------------------------------
(* Inputs.                                                                 *)

\* Longest job URL, counted in fragments.
MaxParts == 2

FragWorkday == <<"W", "o", "r", "k", "D", "a", "y">>
FragGreenhouse == <<"G", "r", "e", "e", "n", "H", "o", "u", "s", "e">>
FragIo == <<".", "i", "o">>
FragLever == <<"l", "e", "v", "e", "r">>
FragCo == <<".", "c", "o">>
FragPath == <<"/", "x">>

Fragments == {FragWorkday, FragGreenhouse, FragIo, FragLever, FragCo, FragPath}

RECURSIVE Flatten(_)
Flatten(parts) ==
    IF parts = <<>> THEN <<>> ELSE Head(parts) \o Flatten(Tail(parts))

GreenhouseExampleUrl ==
    <<"h", "t", "t", "p", "s", ":", "/", "/", "b", "o", "a", "r", "d", "s", ".",
      "g", "r", "e", "e", "n", "h", "o", "u", "s", "e", ".", "i", "o", "/",
      "a", "c", "m", "e", "/", "j", "o", "b", "s", "/", "1", "2", "3">>
GenericExampleUrl ==
    <<"h", "t", "t", "p", "s", ":", "/", "/", "c", "a", "r", "e", "e", "r", "s",
      ".", "u", "n", "k", "n", "o", "w", "n", "c", "o", ".", "c", "o", "m", "/",
      "a", "p", "p", "l", "y", "/", "5", "5">>

\* URLs that match two or all three patterns of the detection logic, the
\* later pattern of the chain standing first in the URL.
OverlapUrls ==
    {FragGreenhouse \o FragIo \o FragPath \o FragWorkday,
     FragLever \o FragCo \o FragPath \o FragWorkday,
     FragLever \o FragCo \o FragPath \o FragGreenhouse \o FragIo,
     FragLever \o FragCo \o FragPath \o FragGreenhouse \o FragIo \o FragPath
         \o FragWorkday}

\* The URLs the detection logic is run on: every concatenation of at most
\* MaxParts fragments (the empty URL among them), the two URLs of the
\* end-to-end scenarios and the URLs that match several patterns.
DetectorUrls ==
    UNION {{Flatten(p) : p \in [1..n -> Fragments]} : n \in 0..MaxParts}
        \cup {GreenhouseExampleUrl, GenericExampleUrl} \cup OverlapUrls

\* The URLs whole applications are run on: the empty URL, one URL per
\* handler, and a URL that names a vendor without its domain.
RouterUrls ==
    {<<>>, FragWorkday, GreenhouseExampleUrl, FragLever \o FragCo,
     GenericExampleUrl, FragGreenhouse}

\* Python's None, SQL's NULL.
None == "<None>"

\* The values parse_resume extracts (parser.py:189-203): the names are ""
\* when no name line was found, email and phone None when no match was.
ValuesOf(first_name, last_name, email, phone) ==
    [first_name |-> first_name, last_name |-> last_name, email |-> email,
     phone |-> phone]
FullValues == ValuesOf("Ada", "Lovelace", "ada@x.org", "555-0100")
NoNameValues == ValuesOf("", "", "ada@x.org", "555-0100")
NoContactValues == ValuesOf("Ada", "Lovelace", None, None)
ParsedValues == {FullValues, NoNameValues, NoContactValues}

\* resume_data is None / an empty dict, or a parsed resume whose resume_path
\* names a file that exists on disk or does not.
NoResumeData ==
    [present |-> FALSE, path_exists |-> FALSE, values |-> FullValues]
ResumeRecords ==
    {NoResumeData} \cup
    {[present |-> TRUE, path_exists |-> e, values |-> FullValues] :
         e \in BOOLEAN}

\* Resume records of every kind parse_resume returns.
ParsedResumeRecords ==
    {[present |-> TRUE, path_exists |-> e, values |-> v] :
         e \in BOOLEAN, v \in ParsedValues}

ApplicationTexts == {"", "text"}

-----------------------------------------------------------------------------
(* The log.                                                                *)

Call(op, target, outcome) == <<"call", op, target, outcome>>
Printed(msg) == <<"print", msg, "", "">>
Handler(name, event) == <<"handler", name, event, "">>

Emit(events) == log' = log \o events

InLog(e) == \E i \in 1..Len(log) : log[i] = e
CallsOf(op) ==
    Cardinality({i \in 1..Len(log) : log[i][1] = "call" /\ log[i][2] = op})
Calls == {i \in 1..Len(log) : log[i][1] = "call"}

-----------------------------------------------------------------------------
(* The applications table of database.py and the statements run on it.     *)

\* Arguments of the database functions.
MaxRows == 3
JobUrls == {None, "u1", "u2"}
Titles == {None, "Engineer"}
Companies == {None, "Acme"}
Statuses == {"found", "applied", "%"}
JobDatas == [title : Titles, company : Companies, job_url : JobUrls]

\* A call of a database function: its arguments (None where it has none)
\* and what it returned.
Ret(op, job_data, status, returned, found, jobs) ==
    [op |-> op, job_data |-> job_data, status |-> status,
     returned |-> returned, found |-> found, jobs |-> jobs]
NoJobData == [title |-> None, company |-> None, job_url |-> None]
UrlOnly(url) == [title |-> None, company |-> None, job_url |-> url]
NoCall == Ret("none", NoJobData, None, FALSE, None, <<>>)

\* The row an INSERT of job_data builds: id from AUTOINCREMENT (no row is
\* ever deleted), status from its DEFAULT.
NewRow(rows, job_data) ==
    [id |-> Len(rows) + 1, title |-> job_data.title,
     company |-> job_data.company, job_url |-> job_data.job_url,
     status |-> "found"]

\* NOT NULL on title and company; UNIQUE on job_url, where NULLs are
\* distinct from each other.
ViolatesConstraint(rows, job_data) ==
    \/ job_data.title = None
    \/ job_data.company = None
    \/ /\ job_data.job_url # None
       /\ \E i \in 1..Len(rows) : rows[i].job_url = job_data.job_url

\* INSERT OR REPLACE: the row that holds the job_url is deleted and the new
\* row is inserted.
InsertOrReplace(rows, job_data) ==
    IF job_data.title = None \/ job_data.company = None
    THEN [rows |-> rows, rowcount |-> 0]
    ELSE [rows |-> Append(SelectSeq(rows,
                              LAMBDA r : \/ job_data.job_url = None
                                         \/ r.job_url # job_data.job_url),
                          NewRow(rows, job_data)),
          rowcount |-> 1]

\* INSERT OR IGNORE INTO applications (...) VALUES (...), and cursor.rowcount
InsertOrIgnore(rows, job_data) ==
    IF ViolatesConstraint(rows, job_data)
    THEN [rows |-> rows, rowcount |-> 0]
    ELSE [rows |-> Append(rows, NewRow(rows, job_data)), rowcount |-> 1]

\* UPDATE applications SET status = ? with no WHERE clause: every row.
UpdateStatusEveryRow(rows, url, new_status) ==
    [i \in 1..Len(rows) |-> [rows[i] EXCEPT !.status = new_status]]

\* UPDATE applications SET status = ? WHERE job_url = ?
\* (job_url = NULL is true of no row)
UpdateStatus(rows, url, new_status) ==
    [i \in 1..Len(rows) |->
        IF url # None /\ rows[i].job_url = url
        THEN [rows[i] EXCEPT !.status = new_status]
        ELSE rows[i]]

\* SELECT * FROM applications WHERE status = ?
SelectByStatus(rows, status) ==
    SelectSeq(rows, LAMBDA r : r.status = status)

\* SELECT status FROM applications WHERE job_url = ?, fetchone()
SelectStatus(rows, url) ==
    LET hits == SelectSeq(rows, LAMBDA r : url # None /\ r.job_url = url)
    IN  IF hits = <<>> THEN None ELSE hits[1].status

-----------------------------------------------------------------------------
(* matcher.score_job_relevance and app.find_relevant_jobs.                 *)

\* The texts of the scraped jobs and of the resume skills, spelled out.
Spell ==
    "" :> <<>> @@
    "SQL dev" :> <<"S", "Q", "L", " ", "d", "e", "v">> @@
    "aws sql" :> <<"a", "w", "s", " ", "s", "q", "l">> @@
    "cook" :> <<"c", "o", "o", "k">> @@
    "<b>sql</b> aws" :>
        <<"<", "b", ">", "s", "q", "l", "<", "/", "b", ">", " ", "a", "w", "s">> @@
    "sqlite" :> <<"s", "q", "l", "i", "t", "e">> @@
    "sql" :> <<"s", "q", "l">> @@
    "aws" :> <<"a", "w", "s">> @@
    "SQL" :> <<"S", "Q", "L">>

JobTitles == {"SQL dev", "aws sql", "cook"}
JobCriteria == {"", "<b>sql</b> aws", "sqlite"}
Skills == {"sql", "aws", "SQL"}

\* Code point order of the letters: upper case before lower case.
Letters ==
    <<"A", "B", "C", "D", "E", "F", "G", "H", "I", "J", "K", "L", "M", "N",
      "O", "P", "Q", "R", "S", "T", "U", "V", "W", "X", "Y", "Z",
      "a", "b", "c", "d", "e", "f", "g", "h", "i", "j", "k", "l", "m", "n",
      "o", "p", "q", "r", "s", "t", "u", "v", "w", "x", "y", "z">>
IsWordChar(c) == \E k \in 1..Len(Letters) : Letters[k] = c
Ord(c) == CHOOSE k \in 1..Len(Letters) : Letters[k] = c

\* a < b as Python compares strings (here: strings of letters)
RECURSIVE StrLess(_, _)
StrLess(a, b) ==
    IF b = <<>> THEN FALSE
    ELSE IF a = <<>> THEN TRUE
    ELSE IF a[1] # b[1] THEN Ord(a[1]) < Ord(b[1])
    ELSE StrLess(Tail(a), Tail(b))

\* sorted(list(matched_skills))
RECURSIVE SortedSkills(_)
SortedSkills(skills) ==
    IF skills = {} THEN <<>>
    ELSE LET least == CHOOSE s \in skills :
                 \A t \in skills \ {s} : StrLess(Spell[s], Spell[t])
         IN  <<least>> \o SortedSkills(skills \ {least})

\* BeautifulSoup(html, 'html.parser').get_text(): the text outside the tags
RECURSIVE GetText(_, _)
GetText(html, in_tag) ==
    IF html = <<>> THEN <<>>
    ELSE IF html[1] = "<" THEN GetText(Tail(html), TRUE)
    ELSE IF html[1] = ">" /\ in_tag THEN GetText(Tail(html), FALSE)
    ELSE IF in_tag THEN GetText(Tail(html), TRUE)
    ELSE <<html[1]>> \o GetText(Tail(html), FALSE)

\* re.search(r'\b' + re.escape(skill) + r'\b', text), skill made of letters
SearchWord(skill, text) ==
    \E i \in 1..(Len(text) - Len(skill) + 1) :
        /\ SubSeq(text, i, i + Len(skill) - 1) = skill
        /\ i = 1 \/ ~IsWordChar(text[i - 1])
        /\ i + Len(skill) - 1 = Len(text) \/ ~IsWordChar(text[i + Len(skill)])

\* score_job_relevance(job, resume_skills): 2 for a skill found in the
\* lower-cased title, 1 for a skill found in the lower-cased description.
score_job_relevance(job, resume_skills) ==
    LET title == Lower(Spell[job.title])
        in_title == {s \in resume_skills : SearchWord(Spell[s], title)}
        description == Lower(GetText(Spell[job.criteria], FALSE))
        in_description ==
            IF job.criteria = "" THEN {}
            ELSE {s \in resume_skills : SearchWord(Spell[s], description)}
    IN  [score |-> 2 * Cardinality(in_title) + Cardinality(in_description),
         matched_skills |-> in_title \cup in_description]

\* job.copy() with the keys 'score' and 'matched_skills' set
WithScore(job, scored) ==
    [title |-> job.title, company |-> job.company, link |-> job.link,
     criteria |-> job.criteria, job_url |-> job.job_url,
     score |-> scored.score,
     matched_skills |-> SortedSkills(scored.matched_skills)]

\* sorted(scored_jobs, key=score, reverse=True): stable, so jobs of equal
\* score keep their order.
RECURSIVE SortedByScore(_)
SortedByScore(jobs) ==
    IF jobs = <<>> THEN <<>>
    ELSE LET rest == SortedByScore(Tail(jobs))
             ahead == SelectSeq(rest, LAMBDA j : j.score > jobs[1].score)
             behind == SelectSeq(rest, LAMBDA j : j.score <= jobs[1].score)
         IN  ahead \o <<jobs[1]>> \o behind

\* The scored_jobs list of find_relevant_jobs, built job by job.
RECURSIVE ScoredJobs(_, _)
ScoredJobs(jobs_list, resume_skills) ==
    IF jobs_list = <<>> THEN <<>>
    ELSE LET scored == score_job_relevance(jobs_list[1], resume_skills)
             rest == ScoredJobs(Tail(jobs_list), resume_skills)
         IN  IF scored.score > 2
             THEN <<WithScore(jobs_list[1], scored)>> \o rest
             ELSE rest

\* find_relevant_jobs without the relevance threshold
find_relevant_jobs_unfiltered(jobs_list, resume_skills) ==
    SortedByScore([i \in 1..Len(jobs_list) |->
        WithScore(jobs_list[i],
                  score_job_relevance(jobs_list[i], resume_skills))])

\* find_relevant_jobs(jobs_list, resume_skills)
find_relevant_jobs(jobs_list, resume_skills) ==
    IF jobs_list = <<>> \/ resume_skills = {}
    THEN <<>>
    ELSE SortedByScore(ScoredJobs(jobs_list, resume_skills))

\* Longest job list handed to find_relevant_jobs.
MaxJobsList == 2

\* A scraped job before the app has copied its link to 'job_url'.
ScrapedJob(title, criteria, link) ==
    [title |-> title, company |-> "Acme", link |-> link,
     criteria |-> criteria, job_url |-> None]

RankedInputs ==
    {ScrapedJob(t, c, "u1") : t \in JobTitles, c \in JobCriteria}

JobLists ==
    UNION {[1..n -> RankedInputs] : n \in 0..MaxJobsList}

-----------------------------------------------------------------------------
(* Session state of app.py and streamlit_app.py.                           *)

\* A handled user action: the button, the id of the job it belongs to (0 for
\* the sidebar buttons), the session handed to the automation or the scraper
\* (0 when none was) and how the script run ended.
Act(name, id, session, outcome) ==
    [name |-> name, id |-> id, session |-> session, outcome |-> outcome]
NoAct == Act("none", 0, 0, "done")

\* The session state of a new browser tab: every key at its default.
FreshSession ==
    /\ st_driver = 0
    /\ sessions = <<>>
    /\ st_resume_path = None
    /\ app_text = {}
    /\ current_page = 1
    /\ act = NoAct
    /\ scraped_jobs = <<>>
    /\ my_skills = {}
    /\ ranked_jobs = <<>>

-----------------------------------------------------------------------------
(* State after the caller has built the arguments, before the call.        *)

InitWith(urls) ==
    /\ pc = "start_application"
    /\ driver \in {"session", "none"}
    /\ job_url \in urls
    /\ resume_data \in ResumeRecords
    /\ application_text \in ApplicationTexts
    /\ log = <<>>
    /\ exc = "none"
    /\ idx = 0
    /\ in_frame = FALSE
    /\ session_open = (driver = "session")
    /\ applications = <<>>
    /\ table_exists = FALSE
    /\ ret = NoCall
    /\ FreshSession

Init == InitWith(RouterUrls)
InitDetect == InitWith(DetectorUrls)

Inputs == <<driver, job_url, resume_data, application_text>>

\* A step from one position to another that logs events and touches
\* nothing else.
Goto(from, to, events) ==
    /\ pc = from
    /\ pc' = to
    /\ Emit(events)
    /\ UNCHANGED <<Inputs, database, app, exc, idx, in_frame, session_open>>

\* A step on which the call just made raised an exception of kind e.
Raise(from, to, events, e) ==
    /\ pc = from
    /\ pc' = to
    /\ Emit(events)
    /\ exc' = e
    /\ UNCHANGED <<Inputs, database, app, idx, in_frame, session_open>>

-----------------------------------------------------------------------------
(* start_application                                                       *)

\* start_application_check with job_url left out of the list given to all().
start_application_check_without_url ==
    IF driver = "none" \/ ~resume_data.present \/ application_text = ""
    THEN Goto("start_application", "returned", <<Printed("error_missing_input")>>)
    ELSE Goto("start_application", "sa_get", <<Printed("navigating")>>)

\* if not all([driver, job_url, resume_data, application_text]): return
start_application_check ==
    IF driver = "none" \/ job_url = <<>> \/ ~resume_data.present
       \/ application_text = ""
    THEN Goto("start_application", "returned", <<Printed("error_missing_input")>>)
    ELSE Goto("start_application", "sa_get", <<Printed("navigating")>>)

\* driver.get(job_url); time.sleep(3)
start_application_get ==
    \/ /\ pc = "sa_get"
       /\ pc' = "sa_dispatch"
       /\ Emit(<<Call("get", "job_url", "ok")>>)
       /\ in_frame' = FALSE
       /\ UNCHANGED <<Inputs, database, app, exc, idx, session_open>>
    \/ Raise("sa_get", "sa_except", <<Call("get", "job_url", "raised")>>, "other")

\* Platform detection logic: the if/elif chain calls one handler.
start_application_dispatch ==
    \/ /\ PortalOf(job_url) = "workday"
       /\ Goto("sa_dispatch", "wd_autofill", <<Handler("workday", "enter")>>)
    \/ /\ PortalOf(job_url) = "greenhouse"
       /\ Goto("sa_dispatch", "gh_frame", <<Handler("greenhouse", "enter")>>)
    \/ /\ PortalOf(job_url) = "lever"
       /\ Goto("sa_dispatch", "lv_input", <<Handler("lever", "enter")>>)
    \/ /\ PortalOf(job_url) = "generic"
       /\ Goto("sa_dispatch", "ge_input",
               <<Handler("generic", "enter"), Printed("warning_best_effort")>>)

\* start_application_complete that blocks on console input after the final
\* print: no step of the program leaves "sa_input".
start_application_complete_blocking ==
    Goto("sa_complete", "sa_input", <<Printed("automation_complete")>>)

\* Final manual review step: the handler returned normally.
start_application_complete ==
    Goto("sa_complete", "returned", <<Printed("automation_complete")>>)

\* start_application_except that also quits the driver after the screenshot.
start_application_except_quitting ==
    \/ /\ pc = "sa_except"
       /\ pc' = "returned"
       /\ Emit(<<Printed("critical_error"),
                 Call("save_screenshot", "critical_error.png", "ok"),
                 Printed("screenshot_saved"), Call("quit", "", "ok")>>)
       /\ exc' = "none"
       /\ session_open' = FALSE
       /\ UNCHANGED <<Inputs, database, app, idx, in_frame>>
    \/ Raise("sa_except", "raised",
             <<Printed("critical_error"),
               Call("save_screenshot", "critical_error.png", "raised")>>, "other")

\* except Exception as e: print, driver.save_screenshot, print
start_application_except ==
    \/ /\ pc = "sa_except"
       /\ pc' = "returned"
       /\ Emit(<<Printed("critical_error"),
                 Call("save_screenshot", "critical_error.png", "ok"),
                 Printed("screenshot_saved")>>)
       /\ exc' = "none"
       /\ UNCHANGED <<Inputs, database, app, idx, in_frame, session_open>>
    \/ Raise("sa_except", "raised",
             <<Printed("critical_error"),
               Call("save_screenshot", "critical_error.png", "raised")>>, "other")

\* The caller of the __main__ block: test_driver.quit() once the call has
\* returned (an exception leaving the call ends the script before this line).
main_quit ==
    /\ pc = "returned"
    /\ driver = "session"
    /\ session_open
    /\ session_open' = FALSE
    /\ Emit(<<Call("quit", "", "ok")>>)
    /\ UNCHANGED <<pc, Inputs, database, app, exc, idx, in_frame>>

-----------------------------------------------------------------------------
(* _fill_workday_form                                                      *)

\* wait.until(element_to_be_clickable(autofillWithResume))
fill_workday_form_autofill ==
    \/ Goto("wd_autofill", "wd_click",
            <<Call("wait_clickable", "autofillWithResume", "found")>>)
    \/ Raise("wd_autofill", "wd_except",
             <<Call("wait_clickable", "autofillWithResume", "timeout")>>, "timeout")
    \/ Raise("wd_autofill", "sa_except",
             <<Call("wait_clickable", "autofillWithResume", "raised"),
               Handler("workday", "raise")>>, "other")

\* autofill_button.click()
fill_workday_form_click ==
    \/ Goto("wd_click", "wd_input",
            <<Call("click", "autofillWithResume", "ok"), Printed("clicked_autofill")>>)
    \/ Raise("wd_click", "sa_except",
             <<Call("click", "autofillWithResume", "raised"),
               Handler("workday", "raise")>>, "other")

\* wait.until(presence_of_element_located(resume file input))
fill_workday_form_input ==
    \/ Goto("wd_input", "wd_upload",
            <<Call("wait_present", "resume_input", "found")>>)
    \/ Raise("wd_input", "wd_except",
             <<Call("wait_present", "resume_input", "timeout")>>, "timeout")
    \/ Raise("wd_input", "sa_except",
             <<Call("wait_present", "resume_input", "raised"),
               Handler("workday", "raise")>>, "other")

\* resume_input.send_keys(resume_data['resume_path']): the browser refuses a
\* path that names no file.
fill_workday_form_upload ==
    \/ /\ resume_data.path_exists
       /\ Goto("wd_upload", "wd_next",
               <<Call("send_keys", "resume_input", "ok"), Printed("resume_uploaded")>>)
    \/ Raise("wd_upload", "sa_except",
             <<Call("send_keys", "resume_input", "raised"),
               Handler("workday", "raise")>>, "other")

\* fill_workday_form_next that clicks the control once it is clickable.
fill_workday_form_next_clicking ==
    \/ Goto("wd_next", "sa_complete",
            <<Call("wait_clickable", "next_or_continue", "found"),
              Call("click", "next_or_continue", "ok"),
              Printed("workday_parsed"), Handler("workday", "return")>>)
    \/ Raise("wd_next", "wd_except",
             <<Call("wait_clickable", "next_or_continue", "timeout")>>, "timeout")
    \/ Raise("wd_next", "sa_except",
             <<Call("wait_clickable", "next_or_continue", "raised"),
               Handler("workday", "raise")>>, "other")

\* wait.until(element_to_be_clickable(next | continue))
fill_workday_form_next ==
    \/ Goto("wd_next", "sa_complete",
            <<Call("wait_clickable", "next_or_continue", "found"),
              Printed("workday_parsed"), Handler("workday", "return")>>)
    \/ Raise("wd_next", "wd_except",
             <<Call("wait_clickable", "next_or_continue", "timeout")>>, "timeout")
    \/ Raise("wd_next", "sa_except",
             <<Call("wait_clickable", "next_or_continue", "raised"),
               Handler("workday", "raise")>>, "other")

\* except (TimeoutException, NoSuchElementException): two prints, then the
\* function ends.
fill_workday_form_except ==
    /\ pc = "wd_except"
    /\ pc' = "sa_complete"
    /\ Emit(<<Printed("workday_could_not_complete"), Handler("workday", "return")>>)
    /\ exc' = "none"
    /\ UNCHANGED <<Inputs, database, app, idx, in_frame, session_open>>

-----------------------------------------------------------------------------
(* _fill_greenhouse_form                                                   *)

\* field_map, in insertion order
GreenhouseFields == <<"first_name", "last_name", "email", "phone">>

\* A step that also moves the loop index.
GotoIdx(from, to, events, i) ==
    /\ pc = from
    /\ pc' = to
    /\ Emit(events)
    /\ idx' = i
    /\ UNCHANGED <<Inputs, database, app, exc, in_frame, session_open>>

\* The end of one iteration of the Greenhouse field loop.
GreenhouseNextField(from, events) ==
    IF idx < Len(GreenhouseFields)
    THEN GotoIdx(from, "gh_field_find", events, idx + 1)
    ELSE GotoIdx(from, "gh_cover_find", events, 0)

\* fill_greenhouse_form_frame whose except TimeoutException branch returns
\* from the function instead of going on with the main page.
fill_greenhouse_form_frame_returning ==
    \/ Goto("gh_frame", "gh_switch",
            <<Call("wait_present", "grnhse_iframe", "found")>>)
    \/ Goto("gh_frame", "sa_complete",
            <<Call("wait_present", "grnhse_iframe", "timeout"), Printed("no_iframe"),
              Handler("greenhouse", "return")>>)
    \/ Raise("gh_frame", "sa_except",
             <<Call("wait_present", "grnhse_iframe", "raised"),
               Handler("greenhouse", "raise")>>, "other")

\* First try block: iframe = wait.until(presence_of_element_located(grnhse_iframe)).
\* Only TimeoutException is caught; the block is outside the try/finally.
fill_greenhouse_form_frame ==
    \/ Goto("gh_frame", "gh_switch",
            <<Call("wait_present", "grnhse_iframe", "found")>>)
    \/ Goto("gh_frame", "gh_attach",
            <<Call("wait_present", "grnhse_iframe", "timeout"), Printed("no_iframe")>>)
    \/ Raise("gh_frame", "sa_except",
             <<Call("wait_present", "grnhse_iframe", "raised"),
               Handler("greenhouse", "raise")>>, "other")

\* fill_greenhouse_form_switch that goes on to the upload without having
\* switched into the iframe it found.
fill_greenhouse_form_switch_skipped ==
    Goto("gh_switch", "gh_attach", <<Printed("switched_to_iframe")>>)

\* driver.switch_to.frame(iframe)
fill_greenhouse_form_switch ==
    \/ /\ pc = "gh_switch"
       /\ pc' = "gh_attach"
       /\ Emit(<<Call("switch_to_frame", "grnhse_iframe", "ok"),
                 Printed("switched_to_iframe")>>)
       /\ in_frame' = TRUE
       /\ UNCHANGED <<Inputs, database, app, exc, idx, session_open>>
    \/ Raise("gh_switch", "sa_except",
             <<Call("switch_to_frame", "grnhse_iframe", "raised"),
               Handler("greenhouse", "raise")>>, "other")

\* attach_button = wait.until(element_to_be_clickable([data-source='attach']))
fill_greenhouse_form_attach ==
    \/ Goto("gh_attach", "gh_click",
            <<Call("wait_clickable", "attach_button", "found")>>)
    \/ Raise("gh_attach", "gh_upload_except",
             <<Call("wait_clickable", "attach_button", "timeout")>>, "timeout")
    \/ Raise("gh_attach", "gh_finally",
             <<Call("wait_clickable", "attach_button", "raised")>>, "other")

\* attach_button.click()
fill_greenhouse_form_click ==
    \/ Goto("gh_click", "gh_input", <<Call("click", "attach_button", "ok")>>)
    \/ Raise("gh_click", "gh_finally",
             <<Call("click", "attach_button", "raised")>>, "other")

\* resume_input = wait.until(presence_of_element_located(input[type='file']))
fill_greenhouse_form_input ==
    \/ Goto("gh_input", "gh_upload",
            <<Call("wait_present", "resume_input", "found")>>)
    \/ Raise("gh_input", "gh_upload_except",
             <<Call("wait_present", "resume_input", "timeout")>>, "timeout")
    \/ Raise("gh_input", "gh_finally",
             <<Call("wait_present", "resume_input", "raised")>>, "other")

\* resume_input.send_keys(resume_data['resume_path'])
fill_greenhouse_form_upload ==
    \/ /\ resume_data.path_exists
       /\ Goto("gh_upload", "gh_confirm",
               <<Call("send_keys", "resume_input", "ok")>>)
    \/ Raise("gh_upload", "gh_finally",
             <<Call("send_keys", "resume_input", "raised")>>, "other")

\* fill_greenhouse_form_confirm waiting for the 'Change' button to be absent:
\* its presence ends the wait with a TimeoutException.
fill_greenhouse_form_confirm_inverted ==
    \/ Raise("gh_confirm", "gh_upload_except",
             <<Call("wait_present", "change_button", "found")>>, "timeout")
    \/ GotoIdx("gh_confirm", "gh_field_find",
               <<Call("wait_present", "change_button", "timeout"),
                 Printed("resume_uploaded")>>, 1)
    \/ Raise("gh_confirm", "gh_finally",
             <<Call("wait_present", "change_button", "raised")>>, "other")

\* wait.until(presence_of_element_located(button 'Change')), then the first
\* iteration of the field loop is next.
fill_greenhouse_form_confirm ==
    \/ GotoIdx("gh_confirm", "gh_field_find",
               <<Call("wait_present", "change_button", "found"),
                 Printed("resume_uploaded")>>, 1)
    \/ Raise("gh_confirm", "gh_upload_except",
             <<Call("wait_present", "change_button", "timeout")>>, "timeout")
    \/ Raise("gh_confirm", "gh_finally",
             <<Call("wait_present", "change_button", "raised")>>, "other")

\* fill_greenhouse_form_upload_except that raises the exception again after
\* printing: the handler is left through its finally block.
fill_greenhouse_form_upload_except_reraising ==
    /\ pc = "gh_upload_except"
    /\ pc' = "gh_finally"
    /\ Emit(<<Printed("could_not_upload")>>)
    /\ UNCHANGED <<Inputs, database, app, exc, idx, in_frame, session_open>>

\* except (TimeoutException, NoSuchElementException) of the upload block
fill_greenhouse_form_upload_except ==
    /\ pc = "gh_upload_except"
    /\ pc' = "gh_field_find"
    /\ Emit(<<Printed("could_not_upload")>>)
    /\ exc' = "none"
    /\ idx' = 1
    /\ UNCHANGED <<Inputs, database, app, in_frame, session_open>>

\* field = driver.find_element(*selector)
fill_greenhouse_form_field_find ==
    \/ Goto("gh_field_find", "gh_field_get",
            <<Call("find_element", GreenhouseFields[idx], "found")>>)
    \/ /\ pc = "gh_field_find"
       /\ GreenhouseNextField("gh_field_find",
              <<Call("find_element", GreenhouseFields[idx], "not_found"),
                Printed("field_not_found")>>)
    \/ Raise("gh_field_find", "gh_finally",
             <<Call("find_element", GreenhouseFields[idx], "raised")>>, "other")

\* fill_greenhouse_form_field_get without the emptiness test: the value is
\* typed whatever the field holds.
fill_greenhouse_form_field_get_overwriting ==
    \/ Goto("gh_field_get", "gh_field_send",
            <<Call("get_attribute", GreenhouseFields[idx], "empty"),
              Printed("filling")>>)
    \/ Goto("gh_field_get", "gh_field_send",
            <<Call("get_attribute", GreenhouseFields[idx], "filled"),
              Printed("filling")>>)
    \/ Raise("gh_field_get", "gh_finally",
             <<Call("get_attribute", GreenhouseFields[idx], "raised")>>, "other")

\* if not field.get_attribute('value'):
fill_greenhouse_form_field_get ==
    \/ Goto("gh_field_get", "gh_field_send",
            <<Call("get_attribute", GreenhouseFields[idx], "empty"),
              Printed("filling")>>)
    \/ /\ pc = "gh_field_get"
       /\ GreenhouseNextField("gh_field_get",
              <<Call("get_attribute", GreenhouseFields[idx], "filled")>>)
    \/ Raise("gh_field_get", "gh_finally",
             <<Call("get_attribute", GreenhouseFields[idx], "raised")>>, "other")

\* field.send_keys(resume_data[key])
fill_greenhouse_form_field_send ==
    \/ /\ pc = "gh_field_send"
       /\ resume_data.values[GreenhouseFields[idx]] # None
       /\ GreenhouseNextField("gh_field_send",
              <<Call("send_keys", GreenhouseFields[idx], "ok")>>)
    \/ Raise("gh_field_send", "gh_finally",
             <<Call("send_keys", GreenhouseFields[idx], "raised")>>, "other")

\* cover_letter_box = driver.find_element(By.ID, "cover_letter_text")
fill_greenhouse_form_cover_find ==
    \/ Goto("gh_cover_find", "gh_cover_send",
            <<Call("find_element", "cover_letter_text", "found")>>)
    \/ Goto("gh_cover_find", "gh_finally",
            <<Call("find_element", "cover_letter_text", "not_found"),
              Printed("cover_letter_not_found")>>)
    \/ Raise("gh_cover_find", "gh_finally",
             <<Call("find_element", "cover_letter_text", "raised")>>, "other")

\* cover_letter_box.send_keys(application_text)
fill_greenhouse_form_cover_send ==
    \/ Goto("gh_cover_send", "gh_finally",
            <<Call("send_keys", "cover_letter_text", "ok"), Printed("pasted_text")>>)
    \/ Raise("gh_cover_send", "gh_finally",
             <<Call("send_keys", "cover_letter_text", "raised")>>, "other")

\* finally: driver.switch_to.default_content(); then the function returns, or
\* the pending exception (or the one default_content raised) goes on.
fill_greenhouse_form_finally ==
    \/ /\ pc = "gh_finally"
       /\ pc' = IF exc = "none" THEN "sa_complete" ELSE "sa_except"
       /\ Emit(<<Call("default_content", "", "ok"),
                 Handler("greenhouse", IF exc = "none" THEN "return" ELSE "raise")>>)
       /\ in_frame' = FALSE
       /\ UNCHANGED <<Inputs, database, app, exc, idx, session_open>>
    \/ Raise("gh_finally", "sa_except",
             <<Call("default_content", "", "raised"),
               Handler("greenhouse", "raise")>>, "other")

-----------------------------------------------------------------------------
(* _fill_lever_form                                                        *)

\* field_map, in insertion order
LeverFields == <<"name", "email", "phone", "org", "urls[LinkedIn]">>

\* The end of one iteration of the Lever field loop.
LeverNextField(from, events) ==
    IF idx < Len(LeverFields)
    THEN GotoIdx(from, "lv_field_find", events, idx + 1)
    ELSE GotoIdx(from, "lv_comments_find", events, 0)

\* resume_input = wait.until(presence_of_element_located((By.NAME, "resume")))
fill_lever_form_input ==
    \/ Goto("lv_input", "lv_upload", <<Call("wait_present", "resume_input", "found")>>)
    \/ Raise("lv_input", "lv_upload_except",
             <<Call("wait_present", "resume_input", "timeout")>>, "timeout")
    \/ Raise("lv_input", "lv_except",
             <<Call("wait_present", "resume_input", "raised")>>, "other")

\* resume_input.send_keys(resume_data['resume_path'])
fill_lever_form_upload ==
    \/ /\ resume_data.path_exists
       /\ Goto("lv_upload", "lv_confirm", <<Call("send_keys", "resume_input", "ok")>>)
    \/ Raise("lv_upload", "lv_except",
             <<Call("send_keys", "resume_input", "raised")>>, "other")

\* wait.until(presence_of_element_located((By.CLASS_NAME, "filename")))
fill_lever_form_confirm ==
    \/ GotoIdx("lv_confirm", "lv_field_find",
               <<Call("wait_present", "filename", "found"),
                 Printed("resume_uploaded")>>, 1)
    \/ Raise("lv_confirm", "lv_upload_except",
             <<Call("wait_present", "filename", "timeout")>>, "timeout")
    \/ Raise("lv_confirm", "lv_except",
             <<Call("wait_present", "filename", "raised")>>, "other")

\* except (TimeoutException, NoSuchElementException) of the upload block
fill_lever_form_upload_except ==
    /\ pc = "lv_upload_except"
    /\ pc' = "lv_field_find"
    /\ Emit(<<Printed("could_not_upload")>>)
    /\ exc' = "none"
    /\ idx' = 1
    /\ UNCHANGED <<Inputs, database, app, in_frame, session_open>>

\* field = driver.find_element(*selector)
fill_lever_form_field_find ==
    \/ Goto("lv_field_find", "lv_field_get",
            <<Call("find_element", LeverFields[idx], "found")>>)
    \/ /\ pc = "lv_field_find"
       /\ LeverNextField("lv_field_find",
              <<Call("find_element", LeverFields[idx], "not_found"),
                Printed("field_not_found")>>)
    \/ Raise("lv_field_find", "lv_except",
             <<Call("find_element", LeverFields[idx], "raised")>>, "other")

\* fill_lever_form_field_get with the commented-out fill enabled: an empty
\* field is typed into.
fill_lever_form_field_get_filling ==
    \/ /\ pc = "lv_field_get"
       /\ LeverNextField("lv_field_get",
              <<Call("get_attribute", LeverFields[idx], "empty"),
                Printed("looking_to_fill"),
                Call("send_keys", LeverFields[idx], "ok")>>)
    \/ /\ pc = "lv_field_get"
       /\ LeverNextField("lv_field_get",
              <<Call("get_attribute", LeverFields[idx], "filled")>>)
    \/ Raise("lv_field_get", "lv_except",
             <<Call("get_attribute", LeverFields[idx], "raised")>>, "other")

\* if not field.get_attribute('value'): print only
fill_lever_form_field_get ==
    \/ /\ pc = "lv_field_get"
       /\ LeverNextField("lv_field_get",
              <<Call("get_attribute", LeverFields[idx], "empty"),
                Printed("looking_to_fill")>>)
    \/ /\ pc = "lv_field_get"
       /\ LeverNextField("lv_field_get",
              <<Call("get_attribute", LeverFields[idx], "filled")>>)
    \/ Raise("lv_field_get", "lv_except",
             <<Call("get_attribute", LeverFields[idx], "raised")>>, "other")

\* comments_box = driver.find_element(By.NAME, "comments")
fill_lever_form_comments_find ==
    \/ Goto("lv_comments_find", "lv_comments_send",
            <<Call("find_element", "comments", "found")>>)
    \/ Goto("lv_comments_find", "sa_complete",
            <<Call("find_element", "comments", "not_found"),
              Printed("cover_letter_not_found"), Handler("lever", "return")>>)
    \/ Raise("lv_comments_find", "lv_except",
             <<Call("find_element", "comments", "raised")>>, "other")

\* comments_box.send_keys(application_text)
fill_lever_form_comments_send ==
    \/ Goto("lv_comments_send", "sa_complete",
            <<Call("send_keys", "comments", "ok"), Printed("pasted_text"),
              Handler("lever", "return")>>)
    \/ Raise("lv_comments_send", "lv_except",
             <<Call("send_keys", "comments", "raised")>>, "other")

\* except Exception as e: print, then the function ends.
fill_lever_form_except ==
    /\ pc = "lv_except"
    /\ pc' = "sa_complete"
    /\ Emit(<<Printed("lever_unexpected_error"), Handler("lever", "return")>>)
    /\ exc' = "none"
    /\ idx' = 0
    /\ UNCHANGED <<Inputs, database, app, in_frame, session_open>>

-----------------------------------------------------------------------------
(* _fill_generic_form                                                      *)

\* d[key] = field on a dict kept as the sequence of its items: a key already
\* in the dict keeps its place and takes the new value.
DictPut(items, key, field) ==
    IF \E i \in 1..Len(items) : items[i].key = key
    THEN [i \in 1..Len(items) |->
             IF items[i].key = key THEN [key |-> key, field |-> field]
             ELSE items[i]]
    ELSE Append(items, [key |-> key, field |-> field])

\* generic_field_map: the dict literal keyed by the texts to fill, its
\* values the selectors of the five fields.
generic_field_map ==
    DictPut(DictPut(DictPut(DictPut(DictPut(<<>>,
        resume_data.values.first_name, "first_name"),
        resume_data.values.last_name, "last_name"),
        resume_data.values.email, "email"),
        resume_data.values.phone, "phone"),
        application_text, "cover")

\* generic_field_map.items(), in insertion order: the fields looked up
GenericFields ==
    [i \in 1..Len(generic_field_map) |-> generic_field_map[i].field]

\* The end of one iteration of the generic field loop; after the last one
\* the function returns.
GenericNextField(from, events) ==
    IF idx < Len(GenericFields)
    THEN GotoIdx(from, "ge_field_find", events, idx + 1)
    ELSE GotoIdx(from, "sa_complete",
                 events \o <<Handler("generic", "return")>>, 0)

\* fill_generic_form_input whose except clause names NoSuchElementException
\* only: the TimeoutException of the wait leaves the handler.
fill_generic_form_input_uncaught ==
    \/ Goto("ge_input", "ge_upload", <<Call("wait_present", "resume_input", "found")>>)
    \/ Raise("ge_input", "sa_except",
             <<Call("wait_present", "resume_input", "timeout"),
               Handler("generic", "raise")>>, "timeout")
    \/ Raise("ge_input", "sa_except",
             <<Call("wait_present", "resume_input", "raised"),
               Handler("generic", "raise")>>, "other")

\* resume_input = wait.until(presence_of_element_located(file input ~ resume))
fill_generic_form_input ==
    \/ Goto("ge_input", "ge_upload", <<Call("wait_present", "resume_input", "found")>>)
    \/ GotoIdx("ge_input", "ge_field_find",
               <<Call("wait_present", "resume_input", "timeout"),
                 Printed("no_resume_input")>>, 1)
    \/ Raise("ge_input", "sa_except",
             <<Call("wait_present", "resume_input", "raised"),
               Handler("generic", "raise")>>, "other")

\* resume_input.send_keys(resume_data['resume_path'])
fill_generic_form_upload ==
    \/ /\ resume_data.path_exists
       /\ GotoIdx("ge_upload", "ge_field_find",
                  <<Call("send_keys", "resume_input", "ok"),
                    Printed("filled_resume_input")>>, 1)
    \/ Raise("ge_upload", "sa_except",
             <<Call("send_keys", "resume_input", "raised"),
               Handler("generic", "raise")>>, "other")

\* field = driver.find_element(*selector); NoSuchElementException: pass
fill_generic_form_field_find ==
    \/ Goto("ge_field_find", "ge_field_get",
            <<Call("find_element", GenericFields[idx], "found")>>)
    \/ /\ pc = "ge_field_find"
       /\ GenericNextField("ge_field_find",
              <<Call("find_element", GenericFields[idx], "not_found")>>)
    \/ /\ pc = "ge_field_find"
       /\ pc' = "sa_except"
       /\ Emit(<<Call("find_element", GenericFields[idx], "raised"),
                 Handler("generic", "raise")>>)
       /\ exc' = "other"
       /\ idx' = 0
       /\ UNCHANGED <<Inputs, database, app, in_frame, session_open>>

\* if not field.get_attribute('value'):
fill_generic_form_field_get ==
    \/ Goto("ge_field_get", "ge_field_send",
            <<Call("get_attribute", GenericFields[idx], "empty"),
              Printed("filling_generic_field")>>)
    \/ /\ pc = "ge_field_get"
       /\ GenericNextField("ge_field_get",
              <<Call("get_attribute", GenericFields[idx], "filled")>>)
    \/ /\ pc = "ge_field_get"
       /\ pc' = "sa_except"
       /\ Emit(<<Call("get_attribute", GenericFields[idx], "raised"),
                 Handler("generic", "raise")>>)
       /\ exc' = "other"
       /\ idx' = 0
       /\ UNCHANGED <<Inputs, database, app, in_frame, session_open>>

\* field.send_keys(text_to_fill): a TypeError when the text is None
fill_generic_form_field_send ==
    \/ /\ pc = "ge_field_send"
       /\ generic_field_map[idx].key # None
       /\ GenericNextField("ge_field_send",
              <<Call("send_keys", GenericFields[idx], "ok")>>)
    \/ /\ pc = "ge_field_send"
       /\ pc' = "sa_except"
       /\ Emit(<<Call("send_keys", GenericFields[idx], "raised"),
                 Handler("generic", "raise")>>)
       /\ exc' = "other"
       /\ idx' = 0
       /\ UNCHANGED <<Inputs, database, app, in_frame, session_open>>

-----------------------------------------------------------------------------
(* database.py                                                             *)

automation == <<pc, driver, job_url, resume_data, application_text, log, exc,
                idx, in_frame, session_open>>

\* CREATE TABLE IF NOT EXISTS applications (...)
create_table ==
    /\ table_exists' = TRUE
    /\ ret' = Ret("create_table", NoJobData, None, FALSE, None, <<>>)
    /\ UNCHANGED <<automation, app, applications>>

\* add_job(job_data): without the table the INSERT raises and the function
\* returns False.
add_job ==
    \E job_data \in JobDatas :
        LET done == InsertOrIgnore(applications, job_data)
        IN  /\ Len(done.rows) <= MaxRows
            /\ IF table_exists
               THEN /\ applications' = done.rows
                    /\ ret' = Ret("add_job", job_data, None,
                                  done.rowcount > 0, None, <<>>)
               ELSE /\ applications' = applications
                    /\ ret' = Ret("add_job", job_data, None, FALSE, None, <<>>)
            /\ UNCHANGED <<automation, app, table_exists>>

\* update_job_status(job_url, new_status)
update_job_status ==
    \E url \in JobUrls, new_status \in Statuses :
        /\ applications' = IF table_exists
                           THEN UpdateStatus(applications, url, new_status)
                           ELSE applications
        /\ ret' = Ret("update_job_status", UrlOnly(url), new_status,
                      FALSE, None, <<>>)
        /\ UNCHANGED <<automation, app, table_exists>>

\* get_jobs_by_status(status)
get_jobs_by_status ==
    \E status \in Statuses :
        /\ ret' = Ret("get_jobs_by_status", NoJobData, status, FALSE, None,
                      IF table_exists
                      THEN SelectByStatus(applications, status) ELSE <<>>)
        /\ UNCHANGED <<automation, app, applications, table_exists>>

\* get_job_status(job_url)
get_job_status ==
    \E url \in JobUrls :
        /\ ret' = Ret("get_job_status", UrlOnly(url), None, FALSE,
                      IF table_exists
                      THEN SelectStatus(applications, url) ELSE None,
                      <<>>)
        /\ UNCHANGED <<automation, app, applications, table_exists>>

\* get_all_jobs(): get_jobs_by_status(status='%')
get_all_jobs ==
    /\ ret' = Ret("get_all_jobs", NoJobData, None, FALSE, None,
                  IF table_exists
                  THEN SelectByStatus(applications, "%") ELSE <<>>)
    /\ UNCHANGED <<automation, app, applications, table_exists>>

-----------------------------------------------------------------------------
(* app.py: the review workflow and the browser session it keeps.           *)

\* The statuses the app writes.
ReviewStatuses == {"found", "applying", "rejected", "applied"}

\* Most browser sessions one run of the app starts.
MaxSessions == 2

\* A stored row as an earlier run left it.
StoredRow(id, url, status) ==
    [id |-> id, title |-> "Engineer", company |-> "Acme", job_url |-> url,
     status |-> status]

\* The tables the app can find in job_applications.db when it starts: what
\* earlier fetches and status updates left there.
InitialTables ==
    {<<>>}
        \cup {<<StoredRow(1, "u1", s)>> : s \in ReviewStatuses}
        \cup {<<StoredRow(1, "u1", s), StoredRow(2, "u2", "found")>> :
                  s \in {"applying", "applied"}}
        \cup {<<StoredRow(1, "u1", "rejected"), StoredRow(2, "u2", "applying")>>}

\* database.init_db(): the applications table exists once it has run.
init_db == table_exists = TRUE

\* What parser.parse_resume(path) returns for the uploaded file: None, a
\* record without skills, or a record with skills.
ParseResults == {"none", "no_skills", "skills"}

\* update_job_status(job_id, new_status) as the buttons call it: the first
\* argument is the row's integer id, which SQLite compares with the TEXT
\* column job_url as the id's decimal text.
UpdateById(rows, job_id, new_status) ==
    UpdateStatus(rows, ToString(job_id), new_status)

\* The effect of one of the status buttons of job: the update, st.rerun().
StatusButton(name, job, new_status) ==
    /\ applications' = UpdateById(applications, job.id, new_status)
    /\ ret' = Ret("update_job_status", UrlOnly(ToString(job.id)), new_status,
                  FALSE, None, <<>>)
    /\ act' = Act(name, job.id, 0, "done")

\* The jobs a section of the page lists: get_jobs_by_status(status), rows
\* without an id skipped.
Listed(status) ==
    LET jobs == SelectByStatus(applications, status)
    IN  {jobs[i] : i \in 1..Len(jobs)}

\* st.file_uploader: the file is saved and its path kept.
upload_resume ==
    /\ st_resume_path' = "temp/resume.pdf"
    /\ act' = Act("upload_resume", 0, 0, "done")
    /\ UNCHANGED <<automation, database, st_driver, sessions, app_text,
                   current_page, ranking>>

\* "Approve & Apply" of a job listed for review
approve_and_apply ==
    \E job \in Listed("found") :
        /\ StatusButton("approve_and_apply", job, "applying")
        /\ UNCHANGED <<automation, table_exists, st_driver, sessions,
                       st_resume_path, app_text, current_page, ranking>>

\* "Skip" of a job listed for review
skip ==
    \E job \in Listed("found") :
        /\ StatusButton("skip", job, "rejected")
        /\ UNCHANGED <<automation, table_exists, st_driver, sessions,
                       st_resume_path, app_text, current_page, ranking>>

\* "Generate Application Text" of a job ready to apply: stops without a
\* resume path, else stores the generated text (or the error text).
generate_application_text ==
    \E job \in Listed("applying") :
        /\ IF st_resume_path = None
           THEN /\ act' = Act("generate_application_text", job.id, 0, "stopped")
                /\ app_text' = app_text
           ELSE /\ act' = Act("generate_application_text", job.id, 0, "done")
                /\ app_text' = app_text \cup {job.id}
        /\ UNCHANGED <<automation, database, st_driver, sessions,
                       st_resume_path, current_page, ranking>>

\* "Cancel" of a job ready to apply (shown once its text is not empty)
cancel ==
    \E job \in Listed("applying") :
        /\ job.id \in app_text
        /\ StatusButton("cancel", job, "found")
        /\ app_text' = app_text \ {job.id}
        /\ UNCHANGED <<automation, table_exists, st_driver, sessions,
                       st_resume_path, current_page, ranking>>

\* "Looks Good, Start Applying" of a job ready to apply: parse the resume,
\* reuse st.session_state.driver or start a visible session, call
\* start_application, then mark the job applied.  st.stop() or an exception
\* of initialize_driver or start_application ends the run before the update.
start_applying ==
    \E job \in Listed("applying"), parsed \in ParseResults,
       started \in BOOLEAN, returned \in BOOLEAN :
        /\ job.id \in app_text
        /\ IF st_resume_path = None \/ parsed = "none"
           THEN /\ act' = Act("start_applying", job.id, 0, "stopped")
                /\ UNCHANGED <<database, st_driver, sessions>>
           ELSE IF st_driver = 0 /\ ~started
           THEN /\ act' = Act("start_applying", job.id, 0, "raised")
                /\ UNCHANGED <<database, st_driver, sessions>>
           ELSE /\ IF st_driver = 0
                   THEN /\ Len(sessions) < MaxSessions
                        /\ sessions' = Append(sessions,
                               [headless |-> FALSE, open |-> TRUE])
                        /\ st_driver' = Len(sessions) + 1
                   ELSE UNCHANGED <<st_driver, sessions>>
                /\ IF returned
                   THEN /\ applications' =
                               UpdateById(applications, job.id, "applied")
                        /\ ret' = Ret("update_job_status",
                                      UrlOnly(ToString(job.id)), "applied",
                                      FALSE, None, <<>>)
                        /\ act' = Act("start_applying", job.id, st_driver', "done")
                   ELSE /\ act' = Act("start_applying", job.id, st_driver', "raised")
                        /\ UNCHANGED <<applications, ret>>
                /\ UNCHANGED table_exists
        /\ UNCHANGED <<automation, st_resume_path, app_text, current_page, ranking>>

\* What the scraper can return to the app: job records with their link.
\* A link of None is a card whose href attribute is missing; "u1" and "u2"
\* are URLs earlier runs may have stored, "u3" is a new one.
ScrapedLists ==
    { <<>>,
      <<ScrapedJob("aws sql", "", "u1"), ScrapedJob("aws sql", "", "u3")>>,
      <<ScrapedJob("cook", "", "u3"), ScrapedJob("aws sql", "", "u2")>>,
      <<ScrapedJob("aws sql", "", None), ScrapedJob("cook", "", "u1")>>,
      <<ScrapedJob("aws sql", "", "u3"), ScrapedJob("SQL dev", "", "u3")>> }

\* The skill sets parse_resume finds in the uploaded resume.
ParsedSkillSets == {{"sql", "aws"}}

\* scraper.run_scraper(driver, skills, location, email=, password=,
\* additional_keywords=): a producer of job records; it catches its own
\* exceptions and returns the jobs scraped so far.
run_scraper == ScrapedLists

\* for job in scraped_jobs: job['job_url'] = job.get('link')
WithJobUrl(jobs) ==
    [i \in 1..Len(jobs) |-> [jobs[i] EXCEPT !.job_url = jobs[i].link]]

\* The jobs with a link that is not among processed_urls
Unprocessed(jobs, processed_urls) ==
    SelectSeq(jobs, LAMBDA j : j.job_url # None /\ j.job_url \notin processed_urls)

\* The add_job calls of the loop over ranked_jobs, on the rows
JobDataOf(job) ==
    [title |-> job.title, company |-> job.company, job_url |-> job.job_url]

RECURSIVE AddJobs(_, _)
AddJobs(rows, jobs) ==
    IF jobs = <<>> THEN rows
    ELSE AddJobs(InsertOrIgnore(rows, JobDataOf(jobs[1])).rows, Tail(jobs))

\* What the last database call of the fetch returned: get_all_jobs() when
\* nothing was ranked, else the add_job of the last ranked job.
LastFetchCall(rows, all_jobs, ranked) ==
    IF ranked = <<>>
    THEN Ret("get_all_jobs", NoJobData, None, FALSE, None, all_jobs)
    ELSE LET n == Len(ranked)
             before == AddJobs(rows, SubSeq(ranked, 1, n - 1))
         IN  Ret("add_job", JobDataOf(ranked[n]), None,
                 InsertOrIgnore(before, JobDataOf(ranked[n])).rowcount > 0,
                 None, <<>>)

\* "Fetch & Rank Jobs" and the run it triggers: parse the resume, reuse
\* st.session_state.driver or start a headless session, scrape, drop the
\* jobs whose URL get_all_jobs() reports, rank the rest and add them.
fetch_and_rank_jobs ==
    \E parsed \in ParseResults, skills \in ParsedSkillSets,
       started \in BOOLEAN, scraped \in run_scraper :
        /\ IF st_resume_path = None \/ parsed # "skills"
           THEN /\ act' = Act("fetch_and_rank_jobs", 0, 0, "stopped")
                /\ UNCHANGED <<database, st_driver, sessions, ranking>>
           ELSE IF st_driver = 0 /\ ~started
           THEN /\ act' = Act("fetch_and_rank_jobs", 0, 0, "raised")
                /\ my_skills' = skills
                /\ UNCHANGED <<database, st_driver, sessions, scraped_jobs,
                               ranked_jobs>>
           ELSE /\ my_skills' = skills
                /\ IF st_driver = 0
                   THEN /\ Len(sessions) < MaxSessions
                        /\ sessions' = Append(sessions,
                               [headless |-> TRUE, open |-> TRUE])
                        /\ st_driver' = Len(sessions) + 1
                   ELSE UNCHANGED <<st_driver, sessions>>
                /\ act' = Act("fetch_and_rank_jobs", 0, st_driver', "done")
                /\ scraped_jobs' = WithJobUrl(scraped)
                /\ IF scraped = <<>>
                   THEN UNCHANGED database
                   ELSE LET all_jobs == SelectByStatus(applications, "%")
                            processed_urls ==
                                {all_jobs[i].job_url : i \in 1..Len(all_jobs)}
                            unprocessed ==
                                Unprocessed(WithJobUrl(scraped), processed_urls)
                            ranked == find_relevant_jobs(unprocessed, skills)
                        IN  /\ Len(AddJobs(applications, ranked)) <= MaxRows
                            /\ applications' = AddJobs(applications, ranked)
                            /\ ret' = LastFetchCall(applications, all_jobs,
                                                    ranked)
                            /\ UNCHANGED table_exists
                /\ UNCHANGED ranked_jobs
        /\ UNCHANGED <<automation, st_resume_path, app_text, current_page>>

\* "Quit Browser Session" that quits the session but keeps it in
\* st.session_state.driver
quit_browser_session_keeping ==
    /\ IF st_driver # 0
       THEN sessions' = [sessions EXCEPT ![st_driver].open = FALSE]
       ELSE UNCHANGED sessions
    /\ act' = Act("quit_browser_session", 0, 0, "done")
    /\ UNCHANGED <<automation, database, st_driver, st_resume_path, app_text,
                   current_page, ranking>>

\* "Quit Browser Session"
quit_browser_session ==
    /\ IF st_driver # 0
       THEN /\ sessions' = [sessions EXCEPT ![st_driver].open = FALSE]
            /\ st_driver' = 0
       ELSE UNCHANGED <<st_driver, sessions>>
    /\ act' = Act("quit_browser_session", 0, 0, "done")
    /\ UNCHANGED <<automation, database, st_resume_path, app_text, current_page, ranking>>

\* --- streamlit_app.py: the review list in pages ---

\* Most rows of the table while the pages are browsed.
MaxPageRows == 12

JOBS_PER_PAGE == 9

\* URLs of the jobs earlier fetches stored
PageUrls == <<"p1", "p2", "p3", "p4", "p5", "p6", "p7", "p8", "p9", "p10">>

\* The tables streamlit_app.py can find when it starts: n jobs, all to
\* review but possibly the first.
InitialPageTables ==
    {<<>>}
        \cup {[i \in 1..n |-> StoredRow(i, PageUrls[i],
                                        IF i = 1 THEN s ELSE "found")] :
                  n \in {1, 9, 10}, s \in {"found", "rejected"}}

\* jobs_to_display = database.get_jobs_by_status('found')
jobs_to_display == SelectByStatus(applications, "found")
total_jobs == Len(jobs_to_display)
total_pages == (total_jobs + JOBS_PER_PAGE - 1) \div JOBS_PER_PAGE
start_index == (current_page - 1) * JOBS_PER_PAGE
end_index == start_index + JOBS_PER_PAGE

\* jobs_to_display[start_index:end_index]
jobs_on_this_page ==
    IF start_index < 0 THEN <<>>
    ELSE SubSeq(jobs_to_display, start_index + 1,
                IF end_index < total_jobs THEN end_index ELSE total_jobs)
OnThisPage == {jobs_on_this_page[i] : i \in 1..Len(jobs_on_this_page)}

\* "Approve & Apply" of a job on the page shown
page_approve_and_apply ==
    \E job \in OnThisPage :
        /\ StatusButton("page_approve_and_apply", job, "applying")
        /\ UNCHANGED <<automation, table_exists, st_driver, sessions,
                       st_resume_path, app_text, current_page, ranking>>

\* "Skip" of a job on the page shown
page_skip ==
    \E job \in OnThisPage :
        /\ StatusButton("page_skip", job, "rejected")
        /\ UNCHANGED <<automation, table_exists, st_driver, sessions,
                       st_resume_path, app_text, current_page, ranking>>

\* "Previous": shown when there is more than one page, disabled on page 1
page_previous ==
    /\ total_jobs > 0 /\ total_pages > 1
    /\ ~(current_page <= 1)
    /\ current_page' = current_page - 1
    /\ act' = Act("page_previous", 0, 0, "done")
    /\ UNCHANGED <<automation, database, st_driver, sessions, st_resume_path,
                   app_text, ranking>>

\* "Next" without its disabled condition
page_next_enabled ==
    /\ total_jobs > 0 /\ total_pages > 1
    /\ current_page' = current_page + 1
    /\ act' = Act("page_next", 0, 0, "done")
    /\ UNCHANGED <<automation, database, st_driver, sessions, st_resume_path,
                   app_text, ranking>>

\* "Next": shown when there is more than one page, disabled on the last
page_next ==
    /\ total_jobs > 0 /\ total_pages > 1
    /\ ~(current_page >= total_pages)
    /\ current_page' = current_page + 1
    /\ act' = Act("page_next", 0, 0, "done")
    /\ UNCHANGED <<automation, database, st_driver, sessions, st_resume_path,
                   app_text, ranking>>

\* "Fetch & Rank Jobs" of streamlit_app.py: as in app.py, but the scraper
\* gets a temporary headless session that is quit when it returns, and the
\* list goes back to page 1.  st.stop() or an exception of initialize_driver
\* ends the run before the reset.
page_fetch_and_rank_jobs ==
    \E parsed \in ParseResults, skills \in ParsedSkillSets,
       started \in BOOLEAN, scraped \in run_scraper :
        /\ IF st_resume_path = None \/ parsed # "skills"
           THEN /\ act' = Act("page_fetch_and_rank_jobs", 0, 0, "stopped")
                /\ UNCHANGED <<database, sessions, ranking, current_page>>
           ELSE IF ~started
           THEN /\ act' = Act("page_fetch_and_rank_jobs", 0, 0, "raised")
                /\ my_skills' = skills
                /\ UNCHANGED <<database, sessions, scraped_jobs, ranked_jobs,
                               current_page>>
           ELSE /\ my_skills' = skills
                /\ Len(sessions) < MaxSessions
                /\ sessions' = Append(sessions,
                       [headless |-> TRUE, open |-> FALSE])
                /\ act' = Act("page_fetch_and_rank_jobs", 0,
                              Len(sessions) + 1, "done")
                /\ scraped_jobs' = WithJobUrl(scraped)
                /\ IF scraped = <<>>
                   THEN UNCHANGED database
                   ELSE LET all_jobs == SelectByStatus(applications, "%")
                            processed_urls ==
                                {all_jobs[i].job_url : i \in 1..Len(all_jobs)}
                            unprocessed ==
                                Unprocessed(WithJobUrl(scraped), processed_urls)
                            ranked == find_relevant_jobs(unprocessed, skills)
                        IN  /\ Len(AddJobs(applications, ranked)) <= MaxPageRows
                            /\ applications' = AddJobs(applications, ranked)
                            /\ ret' = LastFetchCall(applications, all_jobs,
                                                    ranked)
                            /\ UNCHANGED table_exists
                /\ current_page' = 1
                /\ UNCHANGED ranked_jobs
        /\ UNCHANGED <<automation, st_driver, st_resume_path, app_text>>

\* ranked_jobs = find_relevant_jobs(jobs, st.session_state.my_skills)
find_relevant_jobs_call ==
    /\ act = NoAct
    /\ ranked_jobs' = find_relevant_jobs(scraped_jobs, my_skills)
    /\ act' = Act("find_relevant_jobs", 0, 0, "done")
    /\ UNCHANGED <<automation, database, st_driver, sessions, st_resume_path,
                   app_text, current_page, scraped_jobs, my_skills>>

-----------------------------------------------------------------------------

Next ==
    \/ fill_greenhouse_form_frame
    \/ fill_greenhouse_form_switch
    \/ fill_greenhouse_form_attach
    \/ fill_greenhouse_form_click
    \/ fill_greenhouse_form_input
    \/ fill_greenhouse_form_upload
    \/ fill_greenhouse_form_confirm
    \/ fill_greenhouse_form_upload_except
    \/ fill_greenhouse_form_field_find
    \/ fill_greenhouse_form_field_get
    \/ fill_greenhouse_form_field_send
    \/ fill_greenhouse_form_cover_find
    \/ fill_greenhouse_form_cover_send
    \/ fill_greenhouse_form_finally
    \/ fill_lever_form_input
    \/ fill_lever_form_upload
    \/ fill_lever_form_confirm
    \/ fill_lever_form_upload_except
    \/ fill_lever_form_field_find
    \/ fill_lever_form_field_get
    \/ fill_lever_form_comments_find
    \/ fill_lever_form_comments_send
    \/ fill_lever_form_except
    \/ fill_generic_form_input
    \/ fill_generic_form_upload
    \/ fill_generic_form_field_find
    \/ fill_generic_form_field_get
    \/ fill_generic_form_field_send
    \/ start_application_check
    \/ start_application_get
    \/ start_application_dispatch
    \/ start_application_complete
    \/ start_application_except
    \/ main_quit
    \/ fill_workday_form_autofill
    \/ fill_workday_form_click
    \/ fill_workday_form_input
    \/ fill_workday_form_upload
    \/ fill_workday_form_next
    \/ fill_workday_form_except

Spec == Init /\ [][Next]_vars

\* The defensive check, the navigation and the platform detection alone, on
\* the larger set of URLs.
NextDetect ==
    \/ start_application_check
    \/ start_application_get
    \/ start_application_dispatch

SpecDetect == InitDetect /\ [][NextDetect]_vars

\* start_application with every kind of resume record parse_resume returns,
\* followed through the detection into the generic handler; the handlers
\* of the three portals are entered and not followed.
InitGeneric ==
    /\ pc = "start_application"
    /\ driver \in {"session", "none"}
    /\ job_url \in RouterUrls
    /\ resume_data \in ParsedResumeRecords
    /\ application_text \in ApplicationTexts
    /\ log = <<>>
    /\ exc = "none"
    /\ idx = 0
    /\ in_frame = FALSE
    /\ session_open = (driver = "session")
    /\ applications = <<>>
    /\ table_exists = FALSE
    /\ ret = NoCall
    /\ FreshSession

NextGeneric ==
    \/ start_application_check
    \/ start_application_get
    \/ start_application_dispatch
    \/ fill_generic_form_input
    \/ fill_generic_form_upload
    \/ fill_generic_form_field_find
    \/ fill_generic_form_field_get
    \/ fill_generic_form_field_send
    \/ start_application_complete
    \/ start_application_except
    \/ main_quit

SpecGeneric == InitGeneric /\ [][NextGeneric]_vars

\* The functions of database.py, called in any order on a fresh database
\* file; no application is being automated.
InitDb ==
    /\ pc = "idle"
    /\ driver = "none"
    /\ job_url = <<>>
    /\ resume_data = NoResumeData
    /\ application_text = ""
    /\ log = <<>>
    /\ exc = "none"
    /\ idx = 0
    /\ in_frame = FALSE
    /\ session_open = FALSE
    /\ applications = <<>>
    /\ table_exists = FALSE
    /\ ret = NoCall
    /\ FreshSession

NextDb ==
    \/ create_table
    \/ add_job
    \/ update_job_status
    \/ get_jobs_by_status
    \/ get_job_status
    \/ get_all_jobs

SpecDb == InitDb /\ [][NextDb]_vars

\* streamlit_app.py in one browser tab: the review list and its pages.
InitPages ==
    /\ pc = "idle"
    /\ driver = "none"
    /\ job_url = <<>>
    /\ resume_data = NoResumeData
    /\ application_text = ""
    /\ log = <<>>
    /\ exc = "none"
    /\ idx = 0
    /\ in_frame = FALSE
    /\ session_open = FALSE
    /\ init_db
    /\ applications \in InitialPageTables
    /\ ret = NoCall
    /\ FreshSession

NextPages ==
    \/ upload_resume
    \/ page_approve_and_apply
    \/ page_skip
    \/ page_previous
    \/ page_next
    \/ page_fetch_and_rank_jobs

SpecPages == InitPages /\ [][NextPages]_vars

\* app.py in one browser tab, on the database earlier runs left.
InitApp ==
    /\ pc = "idle"
    /\ driver = "none"
    /\ job_url = <<>>
    /\ resume_data = NoResumeData
    /\ application_text = ""
    /\ log = <<>>
    /\ exc = "none"
    /\ idx = 0
    /\ in_frame = FALSE
    /\ session_open = FALSE
    /\ init_db
    /\ applications \in InitialTables
    /\ ret = NoCall
    /\ FreshSession

NextApp ==
    \/ upload_resume
    \/ approve_and_apply
    \/ skip
    \/ generate_application_text
    \/ cancel
    \/ start_applying
    \/ quit_browser_session
    \/ fetch_and_rank_jobs

SpecApp == InitApp /\ [][NextApp]_vars

\* find_relevant_jobs on every job list and skill set of the bounds.
InitRank ==
    /\ pc = "idle"
    /\ driver = "none"
    /\ job_url = <<>>
    /\ resume_data = NoResumeData
    /\ application_text = ""
    /\ log = <<>>
    /\ exc = "none"
    /\ idx = 0
    /\ in_frame = FALSE
    /\ session_open = FALSE
    /\ applications = <<>>
    /\ table_exists = FALSE
    /\ ret = NoCall
    /\ st_driver = 0
    /\ sessions = <<>>
    /\ st_resume_path = None
    /\ app_text = {}
    /\ current_page = 1
    /\ act = NoAct
    /\ scraped_jobs \in JobLists
    /\ my_skills \in SUBSET Skills
    /\ ranked_jobs = <<>>

NextRank == find_relevant_jobs_call

SpecRank == InitRank /\ [][NextRank]_vars

-----------------------------------------------------------------------------
(* Properties.                                                             *)

Portals == {"workday", "greenhouse", "lever", "generic"}

\* start_application is over: it returned, or an exception left it.
Done == pc \in {"returned", "raised"}

Entered(h) == InLog(Handler(h, "enter"))
Left(h) == InLog(Handler(h, "return")) \/ InLog(Handler(h, "raise"))
Attempted(op, target) ==
    \E i \in Calls : log[i][2] = op /\ log[i][3] = target

\* pat occurs in url, letters compared without regard to case (pat is in
\* lower case).
OccursIgnoringCase(pat, url) ==
    \E off \in 0..(Len(url) - Len(pat)) :
        \A j \in 1..Len(pat) :
            \/ url[off + j] = pat[j]
            \/ /\ url[off + j] \in DOMAIN UpperToLower
               /\ UpperToLower[url[off + j]] = pat[j]

KwWorkday == <<"w", "o", "r", "k", "d", "a", "y">>
KwGreenhouse == <<"g", "r", "e", "e", "n", "h", "o", "u", "s", "e">>
KwLever == <<"l", "e", "v", "e", "r">>
KwGreenhouseIo == KwGreenhouse \o <<".", "i", "o">>
KwLeverCo == KwLever \o <<".", "c", "o">>

\* C1, as stated: a URL containing 'workday', 'greenhouse' or 'lever'
\* (ignoring case) and neither of the other two words is dispatched to that
\* vendor's handler, and a URL containing none of the three to the Generic
\* handler.
C1_KeywordDispatch ==
    \A h \in Portals : Entered(h) =>
        LET w == OccursIgnoringCase(KwWorkday, job_url)
            g == OccursIgnoringCase(KwGreenhouse, job_url)
            l == OccursIgnoringCase(KwLever, job_url)
        IN  /\ (w /\ ~g /\ ~l) => h = "workday"
            /\ (g /\ ~w /\ ~l) => h = "greenhouse"
            /\ (l /\ ~w /\ ~g) => h = "lever"
            /\ (~w /\ ~g /\ ~l) => h = "generic"

\* C1, amended: the handler entered is a function of the URL alone: Workday
\* when the URL contains 'workday', else Greenhouse when it contains
\* 'greenhouse.io', else Lever when it contains 'lever.co', else Generic, all
\* compared ignoring case; no other handler is entered.
C1_DomainDispatch ==
    \A h \in Portals : Entered(h) =>
        h = IF OccursIgnoringCase(KwWorkday, job_url) THEN "workday"
            ELSE IF OccursIgnoringCase(KwGreenhouseIo, job_url) THEN "greenhouse"
            ELSE IF OccursIgnoringCase(KwLeverCo, job_url) THEN "lever"
            ELSE "generic"

\* C1 witness: the mixed-case URL 'GreenHouse.io' has reached the Greenhouse
\* handler.
C1_Witness ==
    /\ job_url = FragGreenhouse \o FragIo
    /\ Entered("greenhouse")

\* C2: with an empty job URL or without a browser session, driver.get is
\* never called, no handler is entered, and the call returns normally having
\* reported the missing input and not a completed automation.
C2_MissingInputNoNavigation ==
    (driver = "none" \/ job_url = <<>>) =>
        /\ CallsOf("get") = 0
        /\ \A h \in Portals : ~Entered(h)
        /\ pc \in {"start_application", "returned"}
        /\ pc = "returned" =>
              /\ InLog(Printed("error_missing_input"))
              /\ ~InLog(Printed("automation_complete"))

\* C2 witness: a call with a live session, resume data and application text
\* but an empty URL has returned.
C2_Witness ==
    /\ pc = "returned"
    /\ job_url = <<>>
    /\ driver = "session"
    /\ resume_data.present
    /\ application_text # ""

\* C3, as stated: when the resume path names no existing file, nothing is
\* done on the session: no navigation, no element lookup, no upload.
C3_MissingResumeFileNoBrowserUse ==
    (resume_data.present /\ ~resume_data.path_exists) =>
        \A i \in Calls : log[i][2] = "quit"

\* C4: no step of start_application or of a handler quits the session or
\* changes whether it is open.
C4_SessionNeverClosed ==
    [][~Done =>
          /\ session_open' = session_open
          /\ \A i \in (Len(log) + 1)..Len(log') : log'[i][2] # "quit"]_vars

\* C4 witness: a handler has raised, the router has handled it, and the
\* session is still open on return.
C4_Witness ==
    /\ pc = "returned"
    /\ \E h \in Portals : InLog(Handler(h, "raise"))
    /\ InLog(Printed("screenshot_saved"))
    /\ session_open

\* C5, as stated: no exception leaves start_application.
C5_NoExceptionEscapes == pc # "raised"

\* The Greenhouse wait for the iframe ended with a timeout.
FrameTimedOut == InLog(Call("wait_present", "grnhse_iframe", "timeout"))

\* C6: after the wait for the Greenhouse iframe timed out, switch_to.frame is
\* never called, default_content is called exactly once before the handler is
\* left, the attach button is looked up on the main page, the file input is
\* looked up once the attach button was clicked, and unless an unexpected
\* exception ends the handler the four named fields and the cover letter are
\* looked up.
C6_FrameTimeoutFallback ==
    FrameTimedOut =>
        /\ CallsOf("switch_to_frame") = 0
        /\ CallsOf("default_content") <= 1
        /\ Left("greenhouse") =>
              /\ CallsOf("default_content") = 1
              /\ Attempted("wait_clickable", "attach_button")
              /\ InLog(Call("click", "attach_button", "ok")) =>
                    Attempted("wait_present", "resume_input")
        /\ InLog(Handler("greenhouse", "return")) =>
              /\ \A k \in 1..Len(GreenhouseFields) :
                    Attempted("find_element", GreenhouseFields[k])
              /\ Attempted("find_element", "cover_letter_text")

\* C6 witness: the iframe wait timed out and the handler went on to upload
\* the resume and paste the cover letter on the main page, then returned.
C6_Witness ==
    /\ FrameTimedOut
    /\ InLog(Call("send_keys", "resume_input", "ok"))
    /\ InLog(Call("send_keys", "cover_letter_text", "ok"))
    /\ InLog(Handler("greenhouse", "return"))

\* C7, as stated: whenever the Greenhouse handler is left, by return or by
\* exception, default_content has been called.
C7_AlwaysRestoresContext ==
    Left("greenhouse") => CallsOf("default_content") >= 1

\* The wait for the resume upload input ended with a timeout.
UploadInputNotFound == InLog(Call("wait_present", "resume_input", "timeout"))

\* C8, as stated: when the resume upload input was not found, the attempt
\* does not end with the report that the automation completed.
C8_NoUploadInputReportsFailure ==
    (Done /\ UploadInputNotFound) => ~InLog(Printed("automation_complete"))

\* C9, as stated: when the Workday handler or the Lever handler returns after
\* its own except clause caught an error, a screenshot was saved before that
\* return.
C9_HandlerCatchTakesScreenshot ==
    \A i \in 1..Len(log) :
        (/\ log[i] \in {Handler("workday", "return"), Handler("lever", "return")}
         /\ \E j \in 1..i : log[j] \in {Printed("workday_could_not_complete"),
                                        Printed("lever_unexpected_error")})
        => \E k \in 1..i : log[k][1] = "call" /\ log[k][2] = "save_screenshot"

ErrorReports ==
    {Printed("error_missing_input"), Printed("critical_error"),
     Printed("could_not_upload")}

\* The scenario of C10: all four arguments supplied (as in the __main__ block
\* of automator.py), the resume file exists, the iframe, the attach button,
\* the file input and the 'Change' marker are there whenever they are waited
\* for, and no call on the session raises an unexpected exception.
GreenhouseScenario ==
    /\ job_url = GreenhouseExampleUrl
    /\ driver = "session"
    /\ resume_data.present /\ resume_data.path_exists
    /\ application_text # ""
    /\ \A i \in Calls :
          /\ log[i][4] # "raised"
          /\ log[i][3] \in {"grnhse_iframe", "attach_button", "resume_input",
                            "change_button"} => log[i][4] # "timeout"

\* C10: in that scenario the Greenhouse handler and no other is entered, and
\* when start_application is over it has returned normally with the
\* automation-complete report and the resume-uploaded report and with no
\* error report.
C10_GreenhouseEndToEnd ==
    GreenhouseScenario =>
        /\ \A h \in Portals : Entered(h) => h = "greenhouse"
        /\ Done =>
              /\ pc = "returned"
              /\ Entered("greenhouse")
              /\ InLog(Handler("greenhouse", "return"))
              /\ InLog(Printed("automation_complete"))
              /\ InLog(Printed("resume_uploaded"))
              /\ \A i \in 1..Len(log) : log[i] \notin ErrorReports

\* C10 witness: the scenario has run to its end, through the iframe.
C10_Witness ==
    /\ GreenhouseScenario
    /\ pc = "returned"
    /\ InLog(Call("switch_to_frame", "grnhse_iframe", "ok"))
    /\ InLog(Call("wait_present", "change_button", "found"))

\* The scenario of C11: the URL of no known portal, all four arguments
\* supplied, the resume file exists, and no call on the session raises an
\* unexpected exception.
GenericScenario ==
    /\ job_url = GenericExampleUrl
    /\ driver = "session"
    /\ resume_data.present /\ resume_data.path_exists
    /\ application_text # ""
    /\ \A i \in Calls : log[i][4] # "raised"

\* No file input and no field was found on the page.
NothingMatched == \A i \in Calls : log[i][4] # "found"

\* C11: in that scenario the Generic handler and no other is entered, no
\* exception reaches the router, and when start_application is over it has
\* returned normally with the automation-complete report; when moreover no
\* file input and no field was matched, the warning was reported and no error.
C11_GenericEndToEnd ==
    GenericScenario =>
        /\ \A h \in Portals : Entered(h) => h = "generic"
        /\ ~InLog(Handler("generic", "raise"))
        /\ pc # "sa_except"
        /\ Done =>
              /\ pc = "returned"
              /\ InLog(Handler("generic", "return"))
              /\ InLog(Printed("automation_complete"))
              /\ NothingMatched =>
                    /\ InLog(Printed("warning_best_effort"))
                    /\ \A i \in 1..Len(log) : log[i] \notin ErrorReports

\* C11 witness: the scenario has run to its end with the file input and all
\* five fields missing.
C11_Witness ==
    /\ GenericScenario
    /\ pc = "returned"
    /\ NothingMatched
    /\ InLog(Call("wait_present", "resume_input", "timeout"))
    /\ \A k \in 1..Len(GenericFields) :
          InLog(Call("find_element", GenericFields[k], "not_found"))

\* The text fields C12 is about: the four named fields of the Greenhouse
\* handler, every field of the Generic handler.
GuardedFields ==
    IF Entered("greenhouse") THEN {"first_name", "last_name", "email", "phone"}
    ELSE IF Entered("generic")
         THEN {"first_name", "last_name", "email", "phone", "cover"}
    ELSE {}

\* C12: in the Greenhouse and Generic handlers every send_keys into one of
\* those fields comes right after a get_attribute('value') on that field that
\* read an empty value (with the print in between), and a field read as
\* filled is never typed into.
C12_FillOnlyEmptyFields ==
    \A i \in Calls :
        log[i][3] \in GuardedFields =>
            /\ log[i][2] = "send_keys" =>
                  /\ i > 2
                  /\ log[i - 2] = Call("get_attribute", log[i][3], "empty")
                  /\ log[i - 1][1] = "print"
            /\ log[i] = Call("get_attribute", log[i][3], "filled") =>
                  \A j \in Calls :
                      ~(log[j][2] = "send_keys" /\ log[j][3] = log[i][3])

\* C12 witness: a Greenhouse run that left a filled first_name alone and
\* typed into an empty email, and returned.
C12_Witness ==
    /\ InLog(Call("get_attribute", "first_name", "filled"))
    /\ InLog(Call("send_keys", "email", "ok"))
    /\ InLog(Handler("greenhouse", "return"))

\* C13, as stated: when the Workday wait for the autofill-with-resume button
\* timed out, the handler has looked for the resume file input by the time it
\* is left.
C13_UploadWithoutAutofill ==
    (/\ InLog(Call("wait_clickable", "autofillWithResume", "timeout"))
     /\ Left("workday"))
    => Attempted("wait_present", "resume_input")

\* C14: the Lever handler never calls send_keys on name, email, phone, org or
\* urls[LinkedIn], whatever the lookups of those fields gave.
C14_LeverNeverTypesFields ==
    Entered("lever") =>
        \A i \in Calls :
            log[i][2] = "send_keys" =>
                \A k \in 1..Len(LeverFields) : log[i][3] # LeverFields[k]

\* C14 witness: a Lever run that found one field empty, one filled and one
\* missing, and returned.
C14_Witness ==
    /\ InLog(Call("get_attribute", "name", "empty"))
    /\ InLog(Call("get_attribute", "email", "filled"))
    /\ InLog(Call("find_element", "phone", "not_found"))
    /\ InLog(Handler("lever", "return"))

\* C15, as stated: a call with a live session, a non-empty URL and resume data
\* but empty application text navigates to the posting and enters a handler
\* (unless the navigation raised).
C15_ApplicationTextOptional ==
    (/\ driver = "session"
     /\ job_url # <<>>
     /\ resume_data.present
     /\ application_text = "")
    => /\ pc \notin {"start_application", "sa_get"} => CallsOf("get") = 1
       /\ (Done /\ InLog(Call("get", "job_url", "ok"))) =>
             \E h \in Portals : Entered(h)

\* The patterns of the detection logic in the order of the chain, and the
\* handler of each.
PatternOrder == <<KwWorkday, KwGreenhouseIo, KwLeverCo>>
HandlerOrder == <<"workday", "greenhouse", "lever">>

HandlerEnters ==
    Cardinality({i \in 1..Len(log) : log[i][1] = "handler" /\ log[i][3] = "enter"})

\* C16: at most one handler is entered in a call, exactly one once the
\* navigation succeeded and the detection ran; it is the handler of the first
\* pattern in the order Workday, Greenhouse, Lever that occurs in the URL, and
\* Generic when none occurs.
C16_FirstMatchWins ==
    /\ HandlerEnters <= 1
    /\ (InLog(Call("get", "job_url", "ok")) /\ pc # "sa_dispatch") =>
          HandlerEnters = 1
    /\ \A h \in Portals : Entered(h) =>
          LET hits == {k \in 1..3 : OccursIgnoringCase(PatternOrder[k], job_url)}
          IN  IF hits = {} THEN h = "generic"
              ELSE \E k \in hits : /\ \A m \in hits : k <= m
                                   /\ h = HandlerOrder[k]

\* C16 witness: a URL in which 'lever.co' stands before 'greenhouse.io' has
\* been given to the Greenhouse handler.
C16_Witness ==
    /\ job_url = FragLever \o FragCo \o FragPath \o FragGreenhouse \o FragIo
    /\ Entered("greenhouse")

\* The waits of the resume-upload step of the Greenhouse and Lever handlers.
UploadStepTargets == {"attach_button", "resume_input", "change_button", "filename"}

\* The first field of the handler's field loop, and its cover-letter field.
FirstFieldOf(h) == IF h = "greenhouse" THEN GreenhouseFields[1] ELSE LeverFields[1]
CoverFieldOf(h) == IF h = "greenhouse" THEN "cover_letter_text" ELSE "comments"

\* C17: in the Greenhouse and Lever handlers a wait of the upload step that
\* times out is followed by the could-not-upload print and then by the lookup
\* of the first named field, the handler is not left at that point, and
\* unless a later call raises an unexpected exception the handler returns
\* normally having looked up the cover-letter field.
C17_UploadFailureContinues ==
    \A h \in {"greenhouse", "lever"} : Entered(h) =>
        \A i \in Calls :
            (log[i][3] \in UploadStepTargets /\ log[i][4] = "timeout") =>
                /\ Len(log) = i => pc \in {"gh_upload_except", "lv_upload_except"}
                /\ Len(log) > i => log[i + 1] = Printed("could_not_upload")
                /\ Len(log) = i + 1 => pc \in {"gh_field_find", "lv_field_find"}
                /\ Len(log) > i + 1 =>
                      /\ log[i + 2][1] = "call"
                      /\ log[i + 2][2] = "find_element"
                      /\ log[i + 2][3] = FirstFieldOf(h)
                /\ (Left(h) /\ \A j \in Calls : log[j][4] # "raised") =>
                      /\ InLog(Handler(h, "return"))
                      /\ Attempted("find_element", CoverFieldOf(h))

\* C17 witness: a Greenhouse run whose file input never appeared went on to
\* type into a named field and to paste the cover letter, and returned.
C17_Witness ==
    /\ InLog(Call("wait_present", "resume_input", "timeout"))
    /\ InLog(Call("send_keys", "first_name", "ok"))
    /\ InLog(Call("send_keys", "cover_letter_text", "ok"))
    /\ InLog(Handler("greenhouse", "return"))

\* Some driver call raised an exception other than a timeout or a lookup miss.
UnexpectedRaise == \E i \in Calls : log[i][4] = "raised"

\* C18: every call of start_application ends, whatever the portal and
\* whichever elements are found or time out: a call that has not ended always
\* has a next step (no statement blocks), every such step adds to the log,
\* and no run logs more than 40 events, so only finitely many steps can be
\* taken before the end; and the call ends by returning normally unless some
\* driver call raised an unexpected exception.
C18_Terminates ==
    /\ [](~Done => ENABLED <<Next>>_vars)
    /\ [](Len(log) <= 40)
    /\ [](pc = "raised" => UnexpectedRaise)
    /\ [][~Done => Len(log') > Len(log)]_vars

\* C18 witness: a call returned although a wait of its handler timed out.
C18_Witness ==
    /\ pc = "returned"
    /\ \E i \in Calls : log[i][4] = "timeout"
    /\ InLog(Printed("automation_complete"))

\* The store holds a row for url.
Stored(rows, url) == \E i \in 1..Len(rows) : rows[i].job_url = url

\* A step is a call of the database function op.
CallOf(op) == ret'.op = op /\ <<ret, applications>>' # <<ret, applications>>

\* C19: the store never holds two rows with the same non-null job_url;
\* add_job returns True exactly when it appended one new row to the rows
\* already stored, and otherwise leaves the store as it was; add_job with a
\* job_url already stored returns False and leaves every row, status
\* included, unchanged.
C19_AddJobUniqueUrl ==
    /\ [](\A i, j \in 1..Len(applications) :
             (i # j /\ applications[i].job_url # None)
                 => applications[i].job_url # applications[j].job_url)
    /\ [][CallOf("add_job") =>
            /\ ret'.returned <=>
                  /\ Len(applications') = Len(applications) + 1
                  /\ SubSeq(applications', 1, Len(applications)) = applications
                  /\ applications'[Len(applications')].job_url
                         = ret'.job_data.job_url
            /\ ~ret'.returned => applications' = applications
            /\ (ret'.job_data.job_url # None
                    /\ Stored(applications, ret'.job_data.job_url)) =>
                  /\ ~ret'.returned
                  /\ applications' = applications]_vars

\* C19 witness: add_job was refused for a job_url whose stored row has
\* already left the status 'found'.
C19_Witness ==
    /\ ret.op = "add_job"
    /\ ~ret.returned
    /\ ret.job_data.title # None
    /\ ret.job_data.company # None
    /\ \E i \in 1..Len(applications) :
          /\ applications[i].job_url = ret.job_data.job_url
          /\ applications[i].status = "applied"
    /\ Len(applications) > 1

\* C20: get_all_jobs returns every stored row, whatever its status, once.
C20_GetAllJobsReturnsAll ==
    ret.op = "get_all_jobs" => ret.jobs = applications

\* The row has the job_url url (SQL equality: a NULL equals nothing).
HasUrl(row, url) == url # None /\ row.job_url = url

\* C21: update_job_status(job_url, new_status) gives the row with that
\* job_url the status new_status and leaves every other row, and the number
\* of rows, as they were; when no row has the job_url the table is
\* unchanged; get_job_status(job_url) returns the stored status of the row
\* with that job_url, hence new_status after the update, and None when there
\* is no such row.
C21_UpdateOnlyThatRow ==
    /\ [][CallOf("update_job_status") =>
            LET url == ret'.job_data.job_url
                hit == \E i \in 1..Len(applications) :
                           HasUrl(applications[i], url)
            IN  /\ Len(applications') = Len(applications)
                /\ \A i \in 1..Len(applications) :
                      applications'[i] =
                          IF HasUrl(applications[i], url)
                          THEN [applications[i] EXCEPT !.status = ret'.status]
                          ELSE applications[i]
                /\ hit => SelectStatus(applications', url) = ret'.status
                /\ ~hit => /\ applications' = applications
                           /\ SelectStatus(applications', url) = None]_vars
    /\ [](ret.op = "get_job_status" =>
            LET url == ret.job_data.job_url
            IN  /\ \A i \in 1..Len(applications) :
                      HasUrl(applications[i], url)
                          => ret.found = applications[i].status
                /\ (\A i \in 1..Len(applications) :
                      ~HasUrl(applications[i], url)) => ret.found = None)

\* C21 witness: an update has just moved one stored row to 'applied' while
\* another stored row is still 'found'.
C21_Witness ==
    /\ ret.op = "update_job_status"
    /\ ret.status = "applied"
    /\ \E i, j \in 1..Len(applications) :
          /\ HasUrl(applications[i], ret.job_data.job_url)
          /\ applications[i].status = "applied"
          /\ i # j
          /\ applications[j].status = "found"

\* Calls that belong to a handler: every driver call but the navigation, the
\* screenshot of the outer except clause and the caller's quit.
HandlerSteps ==
    {i \in Calls : log[i][2] \notin {"get", "save_screenshot", "quit"}}

\* Elements the Greenhouse handler interacts with after frame detection.
GreenhouseFormTargets ==
    {"attach_button", "resume_input", "change_button", "cover_letter_text"}
        \cup {GreenhouseFields[k] : k \in 1..Len(GreenhouseFields)}

\* The frame-switch attempt is over: the iframe wait timed out, or
\* switch_to.frame returned.
FrameAttemptOver(i) ==
    \/ log[i] = Call("wait_present", "grnhse_iframe", "timeout")
    \/ log[i] = Call("switch_to_frame", "grnhse_iframe", "ok")

\* C22: driver.get(job_url) has returned before any handler is entered and
\* before any handler step, and in the Greenhouse handler the frame-switch
\* attempt is over before the first call on the attach button, the file
\* input, the change button or any text field.
C22_StepsOrdered ==
    /\ \A i \in 1..Len(log) :
          (log[i][1] = "handler" \/ i \in HandlerSteps) =>
              \E g \in 1..(i - 1) : log[g] = Call("get", "job_url", "ok")
    /\ Entered("greenhouse") =>
          \A i \in Calls :
              log[i][3] \in GreenhouseFormTargets =>
                  \E f \in 1..(i - 1) : FrameAttemptOver(f)

\* C22 witness: a Greenhouse run that switched into the iframe, clicked the
\* attach button and typed into a text field.
C22_Witness ==
    /\ InLog(Call("switch_to_frame", "grnhse_iframe", "ok"))
    /\ InLog(Call("click", "attach_button", "ok"))
    /\ InLog(Call("send_keys", "first_name", "ok"))

\* C23: in a Workday run the only element ever clicked is the
\* autofill-with-resume link, the page is loaded once (no later page is
\* navigated to), and once the next/continue control is clickable the
\* handler makes no further driver call: it prints and returns.
C23_WorkdayStopsAtFirstPage ==
    Entered("workday") =>
        /\ \A i \in Calls :
              log[i][2] = "click" => log[i][3] = "autofillWithResume"
        /\ \A i \in Calls : log[i][3] # "next_or_continue"
                               \/ log[i][2] = "wait_clickable"
        /\ CallsOf("get") = 1
        /\ \A i \in Calls :
              log[i] = Call("wait_clickable", "next_or_continue", "found") =>
                  /\ \A j \in HandlerSteps : j <= i
                  /\ Len(log) > i + 1 =>
                        /\ log[i + 1] = Printed("workday_parsed")
                        /\ log[i + 2] = Handler("workday", "return")

\* C23 witness: the next/continue control became clickable after the upload
\* and the call returned.
C23_Witness ==
    /\ InLog(Call("click", "autofillWithResume", "ok"))
    /\ InLog(Call("wait_clickable", "next_or_continue", "found"))
    /\ pc = "returned"

\* The stored status of the job with the row id id.
StatusOfId(id) ==
    LET hits == SelectSeq(applications, LAMBDA r : r.id = id)
    IN  IF hits = <<>> THEN None ELSE hits[1].status

\* The status each review action is to leave its job in.
TargetStatus ==
    [approve_and_apply |-> "applying", skip |-> "rejected",
     cancel |-> "found", start_applying |-> "applied"]

\* C24: after a review action has been handled to its end, the job it was
\* clicked on has the status the action stands for: 'applying' after
\* Approve & Apply, 'rejected' after Skip, 'found' after Cancel, 'applied'
\* after Start Applying (and so it is no longer listed under the status it
\* had).
C24_ReviewActionSetsStatus ==
    (act.name \in DOMAIN TargetStatus /\ act.outcome = "done") =>
        StatusOfId(act.id) = TargetStatus[act.name]

\* The score of a job against the skills of the state.
ScoreOf(job) == score_job_relevance(job, my_skills).score

\* A returned job is the input job with its two added keys.
Carries(out, job) ==
    /\ out.title = job.title /\ out.company = job.company
    /\ out.link = job.link /\ out.criteria = job.criteria
    /\ out.job_url = job.job_url
    /\ out.score = ScoreOf(job)
    /\ {out.matched_skills[k] : k \in 1..Len(out.matched_skills)}
           = score_job_relevance(job, my_skills).matched_skills
    /\ \A k \in 1..(Len(out.matched_skills) - 1) :
           StrLess(Spell[out.matched_skills[k]],
                   Spell[out.matched_skills[k + 1]])

\* C25: find_relevant_jobs returns the input jobs whose score is greater
\* than 2 and no others, each as often as it is in the input, each with its
\* score and its matched skills in sorted order, in order of non-increasing
\* score; it returns the empty list for an empty job list or skill set; the
\* input list is as it was.
C25_FindRelevantJobs ==
    /\ [](act.name = "find_relevant_jobs" =>
            /\ (scraped_jobs = <<>> \/ my_skills = {}) => ranked_jobs = <<>>
            /\ \A k \in 1..Len(ranked_jobs) :
                  \E i \in 1..Len(scraped_jobs) :
                      /\ ScoreOf(scraped_jobs[i]) > 2
                      /\ Carries(ranked_jobs[k], scraped_jobs[i])
            /\ my_skills # {} =>
                  \A i \in 1..Len(scraped_jobs) :
                      ScoreOf(scraped_jobs[i]) > 2 =>
                          Cardinality({k \in 1..Len(ranked_jobs) :
                              Carries(ranked_jobs[k], scraped_jobs[i])})
                          = Cardinality({j \in 1..Len(scraped_jobs) :
                              scraped_jobs[j] = scraped_jobs[i]})
            /\ \A k \in 1..(Len(ranked_jobs) - 1) :
                  ranked_jobs[k].score >= ranked_jobs[k + 1].score)
    /\ [][act'.name = "find_relevant_jobs" =>
              scraped_jobs' = scraped_jobs]_vars

\* C25 witness: of two input jobs the one scoring exactly 2 was dropped and
\* the other returned with two matched skills.
C25_Witness ==
    /\ act.name = "find_relevant_jobs"
    /\ Len(scraped_jobs) = 2
    /\ Len(ranked_jobs) = 1
    /\ \E i \in 1..2 : ScoreOf(scraped_jobs[i]) = 2
    /\ Len(ranked_jobs[1].matched_skills) = 2

\* The five text fields the Generic handler is to look for.
GenericTextFields == {"first_name", "last_name", "email", "phone", "cover"}

\* C26: whatever the resume record, a run of the Generic handler that
\* returns has looked up a field for each of first_name, last_name, email,
\* phone and cover/comment, and each field it found empty was then typed
\* into.
C26_GenericLooksUpEveryField ==
    InLog(Handler("generic", "return")) =>
        /\ \A f \in GenericTextFields : Attempted("find_element", f)
        /\ \A f \in GenericTextFields :
              InLog(Call("get_attribute", f, "empty"))
                  => InLog(Call("send_keys", f, "ok"))

\* ---------------------------------------------------------------------
\* C27: a job whose URL is already stored keeps its row and its status: no
\* action of the app removes a row or changes its URL, no two rows ever
\* share a URL, and a fetch leaves every row that was stored before it as
\* it was (it only appends rows), whatever the scraper returns.
FetchStep == act'.name = "fetch_and_rank_jobs"
RowsKept ==
    /\ Len(applications') >= Len(applications)
    /\ \A i \in 1..Len(applications) :
           /\ applications'[i].id = applications[i].id
           /\ applications'[i].job_url = applications[i].job_url
UniqueUrls ==
    \A i, j \in 1..Len(applications) :
        applications[i].job_url = applications[j].job_url => i = j
DriverIsNoneOrOpen ==
    st_driver = 0 \/ (st_driver \in 1..Len(sessions) /\ sessions[st_driver].open)
C30_DriverNoneOrOpen ==
    /\ []DriverIsNoneOrOpen
    /\ [][Len(sessions') > Len(sessions) => st_driver = 0]_vars
    /\ [][act'.name = "quit_browser_session" =>
            /\ st_driver' = 0
            /\ st_driver # 0 => ~sessions'[st_driver].open]_vars
    /\ [][act'.session # 0 =>
            /\ act'.session = st_driver'
            /\ sessions'[act'.session].open]_vars

\* After a session was quit, Start Applying ran start_application in a
\* second session, started because the stored driver was None.
C30_Witness ==
    /\ act = Act("start_applying", act.id, 2, "done")
    /\ st_driver = 2
    /\ ~sessions[1].open
    /\ sessions[2].open

\* ---------------------------------------------------------------------
\* C29: in streamlit_app.py, whenever at least one 'found' job exists,
\* 1 <= current_page <= total_pages, and the page shown is not empty.
C29_PageInRange ==
    total_jobs > 0 =>
        /\ 1 <= current_page
        /\ current_page <= total_pages
        /\ jobs_on_this_page # <<>>

\* "Approve & Apply" was clicked on the only job of the last page.
C29_Witness ==
    /\ act.name = "page_approve_and_apply"
    /\ current_page = 2
    /\ total_pages = 2
    /\ Len(jobs_on_this_page) = 1

====
